---------------------------- MODULE Spec2Model ----------------------------
(***************************************************************************)
(* CRM GraphQL backend (crm/models.py, crm/schema.py): the entity store,   *)
(* the four mutations CreateCustomer, BulkCreateCustomers, CreateProduct   *)
(* and CreateOrder, and Django's transaction.atomic() as the mutations use *)
(* it.  Callers run concurrently; every database statement is one step.    *)
(* Money is counted in mills (1/1000); a stored Decimal has 2 places.       *)
(***************************************************************************)
EXTENDS Integers, Sequences, FiniteSets, TLC

(* ------------------------------ bounds --------------------------------- *)
\* mutation calls started in one behaviour of Spec
MaxCalls == 2
\* longest batch given to BulkCreateCustomers under Spec
MaxBatch == 2
\* longest product id list given to CreateOrder
MaxProductIds == 2
\* longest batch given to BulkCreateCustomers under SpecSeq
MaxSeqBatch == 3
\* mutation calls started in one behaviour of SpecRace
MaxRaceCalls == 3
\* mutation and query calls started in one behaviour of SpecQuery
MaxQueryCalls == 3
\* queries sent in one behaviour of SpecQuery
MaxQueries == 1
\* mutation calls started in one behaviour of SpecJobs
MaxJobCalls == 1
\* runs of background jobs started in one behaviour of SpecJobs
MaxJobRuns == 2
\* submissions of generate_crm_report_with_retry
MaxSubmissions == 1
\* calls of log_crm_heartbeat
MaxHeartbeats == 3
\* mutations of one caller of alx_backend_graphql_crm/schema.py
MaxPhoneCalls == 1
\* runs of cleanup_old_reports and generate_crm_report beside each other
MaxCleanupRuns == 3
\* if len(lines) > 500: f.writelines(lines[-500:])
KeepLines == 500
\* @shared_task(bind=True, max_retries=3, default_retry_delay=60)
MaxRetries == 3

\* the concurrent callers of the GraphQL endpoint
Procs == {"w1", "w2"}

(* ------------------------------ values --------------------------------- *)
\* None for an optional entity of a result; Some(x) when it is there
Null == {}
Some(x) == {x}

\* phone texts are sequences of characters; None and "" are both falsy
NoPhone == << >>
GoodPhone == <<"+", "1", "2", "3", "4", "5", "6", "7", "8", "9", "0">>
BadPhone == <<"1", "2", "3">>

\* \d
IsDigits(s) == \A i \in 1..Len(s) : s[i] \in {"0", "1", "2", "3", "4", "5", "6", "7", "8", "9"}

Opt(c) == {<< >>, <<c>>}

\* ^\+?1?-?\d{3}-?\d{3}-?\d{4}$ without the final "$"
MatchDashed(s) ==
    \E a \in Opt("+"), b \in Opt("1"), c \in Opt("-"), e \in Opt("-"), f \in Opt("-") :
        LET pre == a \o b \o c
            n1 == Len(pre)
            n2 == n1 + 3 + Len(e)
            n3 == n2 + 3 + Len(f)
        IN  /\ Len(s) = n3 + 4
            /\ SubSeq(s, 1, n1) = pre
            /\ IsDigits(SubSeq(s, n1 + 1, n1 + 3))
            /\ SubSeq(s, n1 + 4, n2) = e
            /\ IsDigits(SubSeq(s, n2 + 1, n2 + 3))
            /\ SubSeq(s, n2 + 4, n3) = f
            /\ IsDigits(SubSeq(s, n3 + 1, n3 + 4))

\* ^\+?\d{10,15}$ without the final "$"
MatchDigits(s) ==
    \E a \in Opt("+") :
        /\ SubSeq(s, 1, Len(a)) = a
        /\ Len(s) - Len(a) \in 10..15
        /\ IsDigits(SubSeq(s, Len(a) + 1, Len(s)))

\* "$" of a Python pattern: the end of the text, or just before a final newline
BeforeEnd(s) ==
    {s} \cup (IF Len(s) > 0 /\ s[Len(s)] = "\n" THEN {SubSeq(s, 1, Len(s) - 1)} ELSE {})

\* re.match(r'^\+?1?-?\d{3}-?\d{3}-?\d{4}$|^\+?\d{10,15}$', phone)
PhoneMatches(s) == \E t \in BeforeEnd(s) : MatchDashed(t) \/ MatchDigits(t)

\* DecimalField(decimal_places=2): a Decimal is stored with two places,
\* rounded half to even
Quantize(mills) ==
    LET q == mills \div 10
        r == mills % 10
    IN  10 * (IF r > 5 \/ (r = 5 /\ q % 2 = 1) THEN q + 1 ELSE q)

(* ------------------------------- state --------------------------------- *)
VARIABLES
    customers,  \* committed rows of Customer: [id, name, email, phone]
    products,   \* committed rows of Product: [id, name, price, stock]
    orders,     \* committed rows of Order with their product associations:
                \*   [id, customer, products, total_amount]
    seq,        \* the last id each table has handed out
    env,        \* what the surroundings do: caller set, store faults, inputs,
                \*   queries still to be sent
    calls,      \* calls[p]: mutation calls caller p has started
    pc,         \* pc[p]: the statement caller p's mutation is at
    op,         \* op[p]: the mutation caller p runs, or ran last
    arg,        \* arg[p]: its input
    loc,        \* loc[p]: the local variables of its mutate()
    txn,        \* txn[p]: the open atomic block of p's connection
    outcome,    \* outcome[p]: "none", "returned" or "raised"
    result,     \* result[p]: the object the mutation returned
    job,        \* job[j]: the run of background job j: its statement, its
                \*   local variables, how it ended and what it returned
    logs        \* the lines of the log files under /tmp, one sequence a file

vars == <<customers, products, orders, seq, env, calls, pc, op, arg, loc, txn,
          outcome, result, job, logs>>

store == <<customers, products, orders>>

(* --------------------------- inputs and seed --------------------------- *)
Names == {"John Doe"}
Emails == {"john@example.com", "jane@example.com"}
Phones == {NoPhone, GoodPhone, BadPhone}

CustomerInput(phones) == [name : Names, email : Emails, phone : phones]

\* batches of at most n inputs
Batches(items, n) == UNION {[1..k -> items] : k \in 0..n}

\* prices in mills: 0, 0.004, 25.50;  stock: absent, -1, 9
Prices == {0, 4, 25500}
Stocks == {Null, Some(-1), Some(9)}
ProductInput(prices, stocks) == [name : {"Mouse"}, price : prices, stock : stocks]

IdLists == UNION {[1..k -> 1..2] : k \in 0..MaxProductIds}
OrderInput == [customer_id : {1}, product_ids : IdLists]

\* rows of seed_db.py
SeedCustomer == [id |-> 1, name |-> "John Doe", email |-> "john@example.com",
                 phone |-> GoodPhone]
SeedLaptop == [id |-> 1, name |-> "Laptop", price |-> 999990, stock |-> 10]

NoLocals == [i |-> 0, created |-> << >>, errors |-> << >>, products |-> << >>,
             order |-> Null, totals |-> << >>]
NoTxn == [open |-> FALSE, customers |-> {}, orders |-> {}, needs_rollback |-> FALSE]
NoResult == [none |-> TRUE]

\* an empty database, or one seeded with a customer and a product
InitStore ==
    /\ \E seed \in {<<{}, {}>>, <<{SeedCustomer}, {SeedLaptop}>>} :
            /\ customers = seed[1]
            /\ products = seed[2]
    /\ orders = {}
    /\ seq = [customer |-> Cardinality(customers), product |-> Cardinality(products),
              order |-> 0]

\* the background jobs of cron.py and tasks.py
Jobs == {"update_low_stock", "generate_crm_report", "generate_crm_report_with_retry",
         "log_crm_heartbeat", "cleanup_old_reports"}

NoJobLocals == [http |-> "", entry |-> "", data |-> Null, fallback |-> FALSE,
                failed |-> "", retries |-> 0, attempts |-> 0, lines |-> << >>]
JobIdle == [pc |-> "idle", loc |-> NoJobLocals, outcome |-> "none", result |-> NoResult]
NoLogs == [low_stock |-> << >>, report |-> << >>, heartbeat |-> << >>, files |-> {}]

InitProcs ==
    /\ job = [j \in Jobs |-> JobIdle]
    /\ calls = [p \in Procs |-> 0]
    /\ pc = [p \in Procs |-> "idle"]
    /\ op = [p \in Procs |-> "none"]
    /\ arg = [p \in Procs |-> << >>]
    /\ loc = [p \in Procs |-> NoLocals]
    /\ txn = [p \in Procs |-> NoTxn]
    /\ outcome = [p \in Procs |-> "none"]
    /\ result = [p \in Procs |-> NoResult]

\* no log file has been written yet
InitCallers ==
    /\ logs = NoLogs
    /\ InitProcs

\* concurrent callers, store faults at every write and transaction statement
Init ==
    /\ InitStore
    /\ InitCallers
    /\ env = [callers |-> Procs, faults |-> BOOLEAN, max_calls |-> MaxCalls,
              phones |-> {NoPhone, BadPhone}, bulk_phones |-> {NoPhone},
              max_batch |-> MaxBatch, prices |-> {0, 25500}, stocks |-> {Null, Some(-1)},
              queries |-> 0,
              log_faults |-> {FALSE}, runs |-> 0, schema |-> "crm"]

\* concurrent callers of the customer mutations on a store that does not fail
InitRace ==
    /\ InitStore
    /\ InitCallers
    /\ env = [callers |-> Procs, faults |-> {FALSE}, max_calls |-> MaxRaceCalls,
              phones |-> {NoPhone}, bulk_phones |-> {NoPhone},
              max_batch |-> MaxBatch, prices |-> {25500}, stocks |-> {Null}, queries |-> 0,
              log_faults |-> {FALSE}, runs |-> 0, schema |-> "crm"]

\* one caller alone running one mutation, no store fault
InitSeq ==
    /\ InitStore
    /\ InitCallers
    /\ env = [callers |-> {"w1"}, faults |-> {FALSE}, max_calls |-> 1,
              phones |-> Phones, bulk_phones |-> Phones,
              max_batch |-> MaxSeqBatch, prices |-> Prices, stocks |-> Stocks, queries |-> 0,
              log_faults |-> {FALSE}, runs |-> 0, schema |-> "crm"]

\* one caller running mutations and queries, no store fault
InitQuery ==
    /\ InitStore
    /\ InitCallers
    /\ env = [callers |-> {"w1"}, faults |-> {FALSE}, max_calls |-> MaxQueryCalls,
              phones |-> {NoPhone}, bulk_phones |-> {NoPhone},
              max_batch |-> 1, prices |-> {500000}, stocks |-> {Some(9)},
              queries |-> MaxQueries, log_faults |-> {FALSE}, runs |-> 0, schema |-> "crm"]

\* one caller running one mutation at a time beside the background jobs; the
\* store, the network and the log files may fail
InitJobs ==
    /\ InitStore
    /\ InitCallers
    /\ env = [callers |-> {"w1"}, faults |-> BOOLEAN, max_calls |-> MaxJobCalls,
              phones |-> {NoPhone}, bulk_phones |-> {NoPhone},
              max_batch |-> 1, prices |-> {25500}, stocks |-> {Null},
              queries |-> 0, log_faults |-> BOOLEAN, runs |-> MaxJobRuns, schema |-> "crm"]

(* ------------------------------ the store ------------------------------ *)
RECURSIVE SumCalls(_)
SumCalls(S) ==
    IF S = {} THEN 0
    ELSE LET p == CHOOSE p \in S : TRUE IN calls[p] + SumCalls(S \ {p})

\* a caller may start a mutation
MayCall(p) ==
    /\ p \in env.callers
    /\ pc[p] = "idle"
    /\ SumCalls(Procs) < env.max_calls

\* the uniqueness query left out
EmailExistsNever(rows, email) == FALSE

\* Customer.objects.filter(email=...).exists()
EmailExists(rows, email) == \E c \in rows : c.email = email

\* a query that misses the rows of its own open transaction
VisibleCommittedOnly(p) == customers

\* the rows a query on p's connection reads: the committed ones and those of
\* its own open transaction
VisibleCustomers(p) == customers \cup txn[p].customers

\* rows other connections have inserted and not yet committed
UncommittedElsewhere(p) == UNION {txn[q].customers : q \in Procs \ {p}}

\* the unique index on Customer.email makes an INSERT wait for a concurrent
\* uncommitted row with the same email
InsertWaits(p, email) == EmailExists(UncommittedElsewhere(p), email)

\* the exception an INSERT into Customer raises, "" if none
InsertCustomerError(p, email, fault) ==
    IF fault THEN "OperationalError"
    ELSE IF EmailExists(VisibleCustomers(p), email) THEN "IntegrityError"
    ELSE ""

\* a row that stays although the statement raised
AfterInsertAlways(rows, row, exc) == rows \cup {row}

\* Model.objects.create(...): the row is in the table unless the INSERT raised
AfterInsert(rows, row, exc) == IF exc = "" THEN rows \cup {row} ELSE rows

Message(text, id, exc) == [text |-> text, id |-> id, exc |-> exc]

\* the ways a step of a caller ends; it leaves the background jobs and their
\* logs alone
Return(p, r) ==
    /\ pc' = [pc EXCEPT ![p] = "idle"]
    /\ outcome' = [outcome EXCEPT ![p] = "returned"]
    /\ result' = [result EXCEPT ![p] = r]
    /\ UNCHANGED <<job, logs>>

Raise(p) ==
    /\ pc' = [pc EXCEPT ![p] = "idle"]
    /\ outcome' = [outcome EXCEPT ![p] = "raised"]
    /\ result' = [result EXCEPT ![p] = NoResult]
    /\ UNCHANGED <<job, logs>>

Goto(p, label) ==
    /\ pc' = [pc EXCEPT ![p] = label]
    /\ outcome' = [outcome EXCEPT ![p] = "none"]
    /\ result' = [result EXCEPT ![p] = NoResult]
    /\ UNCHANGED <<job, logs>>

Begin(p, name, input) ==
    /\ calls' = [calls EXCEPT ![p] = @ + 1]
    /\ op' = [op EXCEPT ![p] = name]
    /\ arg' = [arg EXCEPT ![p] = input]

(* --------------------------- CreateCustomer ---------------------------- *)
CreateCustomerResult(customer, message, success) ==
    [customer |-> customer, message |-> message, success |-> success]

PhoneRejected(phone) == phone # NoPhone /\ ~PhoneMatches(phone)

\* re.match(r'^\+?1?-?\d{3}-?\d{3}-?\d{4}$|^\+?\d{10,15}', phone): the
\* second alternative has no "$" and matches a beginning of the text
PhoneMatchesOpenEnd(s) ==
    \/ \E t \in BeforeEnd(s) : MatchDashed(t)
    \/ \E n \in 10..Len(s) : MatchDigits(SubSeq(s, 1, n))

\* the phone check of CreateCustomer.mutate in the schema module that
\* serves the request
CreateCustomerPhoneRejected(phone) ==
    /\ phone # NoPhone
    /\ IF env.schema = "alx" THEN ~PhoneMatchesOpenEnd(phone) ELSE ~PhoneMatches(phone)

\* mutate() up to the INSERT: the uniqueness query and the phone check
CreateCustomerCheck(p) ==
    /\ MayCall(p)
    /\ \E input \in CustomerInput(env.phones) :
        /\ Begin(p, "CreateCustomer", input)
        /\ IF EmailExists(VisibleCustomers(p), input.email)
           THEN Return(p, CreateCustomerResult(Null,
                    Message("Email already exists", 0, ""), FALSE))
           ELSE IF CreateCustomerPhoneRejected(input.phone)
           THEN Return(p, CreateCustomerResult(Null,
                    Message("Phone number must be in format", 0, ""), FALSE))
           ELSE Goto(p, "cc_create")
        /\ UNCHANGED <<store, seq, env, loc, txn>>

\* Customer.objects.create(...) in autocommit, and the return
CreateCustomerCreate(p) ==
    /\ pc[p] = "cc_create"
    /\ \E fault \in env.faults :
        LET exc == InsertCustomerError(p, arg[p].email, fault)
            row == [id |-> seq.customer + 1, name |-> arg[p].name,
                    email |-> arg[p].email, phone |-> arg[p].phone]
        IN  /\ exc = "" => ~InsertWaits(p, arg[p].email)
            /\ customers' = AfterInsert(customers, row, exc)
            /\ seq' = [seq EXCEPT !.customer = Cardinality(customers') - Cardinality(customers) + @]
            /\ IF exc # ""
               THEN Return(p, CreateCustomerResult(Null,
                        Message("Error creating customer", 0, exc), FALSE))
               ELSE Return(p, CreateCustomerResult(Some(row),
                        Message("Customer created successfully", 0, ""), TRUE))
    /\ UNCHANGED <<products, orders, env, calls, op, arg, loc, txn>>

(* ------------------------- transaction.atomic() ------------------------ *)
\* __enter__ of the outermost atomic block
AtomicEnter(p) == txn' = [txn EXCEPT ![p] = [NoTxn EXCEPT !.open = TRUE]]

\* a block that commits whatever happened in it
CommitsAlways(t, exception, fault) == TRUE

\* __exit__: the block's rows are committed only when it is left without an
\* exception, no statement in it has marked the transaction for rollback and
\* the COMMIT itself does not fail
Commits(t, exception, fault) == ~exception /\ ~t.needs_rollback /\ ~fault

AtomicExit(p, exception, fault) ==
    /\ customers' = IF Commits(txn[p], exception, fault)
                    THEN customers \cup txn[p].customers ELSE customers
    /\ orders' = IF Commits(txn[p], exception, fault)
                 THEN orders \cup txn[p].orders ELSE orders
    /\ txn' = [txn EXCEPT ![p] = NoTxn]

(* ------------------------- BulkCreateCustomers ------------------------- *)
\* a success_count that counts the items instead of the created customers
BulkCreateCustomersResultCountingAll(created, errors) ==
    [customers |-> created, errors |-> errors,
     success_count |-> Len(created) + Len(errors)]

\* BulkCreateCustomers(customers=..., errors=..., success_count=len(...))
BulkCreateCustomersResult(created, errors) ==
    [customers |-> created, errors |-> errors, success_count |-> Len(created)]

\* f"Customer {i+1}: ..."
ItemError(pos, text, exc) == [pos |-> pos, text |-> text, exc |-> exc]

\* the end of one pass of the for loop
NextItem(p, created, errors) ==
    /\ loc' = [loc EXCEPT ![p].i = @ + 1, ![p].created = created, ![p].errors = errors]
    /\ Goto(p, IF loc[p].i + 1 > Len(arg[p]) THEN "bulk_exit" ELSE "bulk_item")

\* mutate() up to the loop: the atomic block is entered outside any try
BulkCreateCustomersEnter(p) ==
    /\ MayCall(p)
    /\ \E input \in Batches(CustomerInput(env.bulk_phones), env.max_batch),
       fault \in env.faults :
        /\ Begin(p, "BulkCreateCustomers", input)
        /\ IF fault
           THEN /\ Raise(p)
                /\ UNCHANGED <<txn, loc>>
           ELSE /\ AtomicEnter(p)
                /\ loc' = [loc EXCEPT ![p] = [NoLocals EXCEPT !.i = 1]]
                /\ Goto(p, IF Len(input) = 0 THEN "bulk_exit" ELSE "bulk_item")
        /\ UNCHANGED <<store, seq, env>>

\* one item up to its INSERT: the uniqueness query and the phone check
BulkCreateCustomersItem(p) ==
    /\ pc[p] = "bulk_item"
    /\ LET i == loc[p].i
           item == arg[p][i]
       IN  IF txn[p].needs_rollback
           THEN NextItem(p, loc[p].created, Append(loc[p].errors,
                    ItemError(i, "exception", "TransactionManagementError")))
           ELSE IF EmailExists(VisibleCustomers(p), item.email)
           THEN NextItem(p, loc[p].created, Append(loc[p].errors,
                    ItemError(i, "Email already exists", "")))
           ELSE IF PhoneRejected(item.phone)
           THEN NextItem(p, loc[p].created, Append(loc[p].errors,
                    ItemError(i, "Invalid phone format", "")))
           ELSE /\ Goto(p, "bulk_create")
                /\ UNCHANGED loc
    /\ UNCHANGED <<store, seq, env, calls, op, arg, txn>>

\* Customer.objects.create(...) of one item inside the atomic block; a
\* database error caught here has marked the transaction for rollback
BulkCreateCustomersCreate(p) ==
    /\ pc[p] = "bulk_create"
    /\ \E fault \in env.faults :
        LET i == loc[p].i
            item == arg[p][i]
            exc == InsertCustomerError(p, item.email, fault)
            row == [id |-> seq.customer + 1, name |-> item.name,
                    email |-> item.email, phone |-> item.phone]
        IN  IF exc # ""
            THEN /\ txn' = [txn EXCEPT ![p].needs_rollback = TRUE]
                 /\ NextItem(p, loc[p].created, Append(loc[p].errors,
                        ItemError(i, "exception", exc)))
                 /\ UNCHANGED seq
            ELSE /\ ~InsertWaits(p, item.email)
                 /\ txn' = [txn EXCEPT ![p].customers = @ \cup {row}]
                 /\ seq' = [seq EXCEPT !.customer = @ + 1]
                 /\ NextItem(p, Append(loc[p].created, row), loc[p].errors)
    /\ UNCHANGED <<store, env, calls, op, arg>>

\* the end of the atomic block, outside any try, and the return
BulkCreateCustomersExit(p) ==
    /\ pc[p] = "bulk_exit"
    /\ \E fault \in env.faults :
        /\ AtomicExit(p, FALSE, fault)
        /\ IF fault /\ ~txn[p].needs_rollback
           THEN Raise(p)
           ELSE Return(p, BulkCreateCustomersResult(loc[p].created, loc[p].errors))
    /\ loc' = [loc EXCEPT ![p] = NoLocals]
    /\ UNCHANGED <<products, seq, env, calls, op, arg>>

(* ---------------------------- CreateProduct ---------------------------- *)
CreateProductResult(product, message, success) ==
    [product |-> product, message |-> message, success |-> success]

\* input.stock if input.stock is not None else 0
StockOrDefault(stock) == IF stock = Null THEN 0 ELSE CHOOSE n \in stock : TRUE

\* mutate(): the two checks, the INSERT in autocommit, and the return
CreateProduct(p) ==
    /\ MayCall(p)
    /\ \E input \in ProductInput(env.prices, env.stocks), fault \in env.faults :
        LET stock == StockOrDefault(input.stock)
            row == [id |-> seq.product + 1, name |-> input.name,
                    price |-> Quantize(input.price), stock |-> stock]
            object == [row EXCEPT !.price = input.price]
            exc == IF fault THEN "OperationalError" ELSE ""
        IN  /\ Begin(p, "CreateProduct", input)
            /\ IF input.price <= 0
               THEN /\ Return(p, CreateProductResult(Null,
                            Message("Price must be positive", 0, ""), FALSE))
                    /\ UNCHANGED <<products, seq>>
               ELSE IF stock < 0
               THEN /\ Return(p, CreateProductResult(Null,
                            Message("Stock cannot be negative", 0, ""), FALSE))
                    /\ UNCHANGED <<products, seq>>
               ELSE /\ products' = AfterInsert(products, row, exc)
                    /\ seq' = [seq EXCEPT !.product =
                                Cardinality(products') - Cardinality(products) + @]
                    /\ IF exc # ""
                       THEN Return(p, CreateProductResult(Null,
                                Message("Error creating product", 0, exc), FALSE))
                       ELSE Return(p, CreateProductResult(Some(object),
                                Message("Product created successfully", 0, ""), TRUE))
            /\ UNCHANGED <<customers, orders, env, loc, txn>>

(* ----------------------------- CreateOrder ----------------------------- *)
CreateOrderResult(order, message, success) ==
    [order |-> order, message |-> message, success |-> success]

RECURSIVE SumPrice(_)
SumPrice(rows) ==
    IF rows = {} THEN 0
    ELSE LET r == CHOOSE r \in rows : TRUE IN r.price + SumPrice(rows \ {r})

\* the total taken over Product.objects.all() instead of self.products.all()
CalculateTotalAllProducts(order, rows) == SumPrice(rows)

\* Order.calculate_total: sum(product.price for product in self.products.all())
CalculateTotal(order, rows) == SumPrice({r \in rows : r.id \in order.products})

\* Order.save: the row is written, then the total is recomputed from the
\* associations and written again
OrderSave(order, rows) == [order EXCEPT !.total_amount = CalculateTotal(order, rows)]

\* the emptiness check left out
NoneSelectedNever(ids) == FALSE

\* not input.product_ids
NoneSelected(ids) == Len(ids) = 0

\* Model.objects.get(id=...): the rows with that id
GetById(rows, id) == {r \in rows : r.id = id}

\* the last unresolved id reported instead of the first
LastMissing(ids, rows) ==
    IF \A k \in 1..Len(ids) : GetById(rows, ids[k]) # {} THEN 0
    ELSE ids[CHOOSE k \in 1..Len(ids) :
                /\ GetById(rows, ids[k]) = {}
                /\ \A j \in (k + 1)..Len(ids) : GetById(rows, ids[j]) # {}]

\* the first product id of the list that does not resolve, 0 if all do
FirstMissing(ids, rows) ==
    IF \A k \in 1..Len(ids) : GetById(rows, ids[k]) # {} THEN 0
    ELSE ids[CHOOSE k \in 1..Len(ids) :
                /\ GetById(rows, ids[k]) = {}
                /\ \A j \in 1..(k - 1) : GetById(rows, ids[j]) # {}]

\* a set() that attaches the first object of the list only
SetFirstProduct(order, list) == [order EXCEPT !.products = {list[1].id}]

\* a set() that writes no association
SetNoProducts(order, list) == order

\* order.products.set(products): one association per distinct product
SetProducts(order, list) == [order EXCEPT !.products = {list[k].id : k \in 1..Len(list)}]

\* an exception inside the try: the atomic block, if open, is rolled back
CreateOrderFails(p, exc) ==
    /\ AtomicExit(p, TRUE, FALSE)
    /\ loc' = [loc EXCEPT ![p] = NoLocals]
    /\ Return(p, CreateOrderResult(Null, Message("Error creating order", 0, exc), FALSE))

\* the checks made with the product list looked at before the customer
CreateOrderCheckProductsFirst(input) ==
    IF NoneSelected(input.product_ids) THEN "empty"
    ELSE IF FirstMissing(input.product_ids, products) # 0 THEN "product"
    ELSE IF GetById(customers, input.customer_id) = {} THEN "customer"
    ELSE "none"

\* the first check of mutate() that fails: the customer lookup, then the
\* emptiness of product_ids, then the lookup of each product id
CreateOrderCheck(input) ==
    IF GetById(customers, input.customer_id) = {} THEN "customer"
    ELSE IF NoneSelected(input.product_ids) THEN "empty"
    ELSE IF FirstMissing(input.product_ids, products) # 0 THEN "product"
    ELSE "none"

\* mutate() up to the first write: the lookups and the entry of the block
CreateOrderValidate(p) ==
    /\ MayCall(p)
    /\ \E input \in OrderInput, fault \in env.faults :
        LET ids == input.product_ids
            missing == FirstMissing(ids, products)
            failed == CreateOrderCheck(input)
        IN  /\ Begin(p, "CreateOrder", input)
            /\ IF failed = "customer"
               THEN /\ Return(p, CreateOrderResult(Null,
                            Message("Customer with ID does not exist", input.customer_id, ""),
                            FALSE))
                    /\ UNCHANGED <<txn, loc>>
               ELSE IF failed = "empty"
               THEN /\ Return(p, CreateOrderResult(Null,
                            Message("At least one product must be selected", 0, ""), FALSE))
                    /\ UNCHANGED <<txn, loc>>
               ELSE IF failed = "product"
               THEN /\ Return(p, CreateOrderResult(Null,
                            Message("Product with ID does not exist", missing, ""), FALSE))
                    /\ UNCHANGED <<txn, loc>>
               ELSE IF fault
               THEN /\ Return(p, CreateOrderResult(Null,
                            Message("Error creating order", 0, "OperationalError"), FALSE))
                    /\ UNCHANGED <<txn, loc>>
               ELSE /\ AtomicEnter(p)
                    /\ loc' = [loc EXCEPT ![p] = [NoLocals EXCEPT !.products =
                            [k \in 1..Len(ids) |->
                                CHOOSE r \in products : r.id = ids[k]]]]
                    /\ Goto(p, "co_create")
            /\ UNCHANGED <<store, seq, env>>

\* Order.objects.create(customer=..., order_date=...): INSERT, then save()
\* recomputes the total of the still empty association set.  loc[p].totals
\* lists the association sets calculate_total() has run over in this call.
CreateOrderCreate(p) ==
    /\ pc[p] = "co_create"
    /\ \E fault \in env.faults :
        LET row == OrderSave([id |-> seq.order + 1, customer |-> arg[p].customer_id,
                              products |-> {}, total_amount |-> 0], products)
        IN  IF fault
            THEN /\ CreateOrderFails(p, "OperationalError")
                 /\ UNCHANGED seq
            ELSE /\ txn' = [txn EXCEPT ![p].orders = {row}]
                 /\ seq' = [seq EXCEPT !.order = @ + 1]
                 /\ loc' = [loc EXCEPT ![p].order = Some(row),
                                        ![p].totals = Append(@, row.products)]
                 /\ Goto(p, "co_set")
                 /\ UNCHANGED <<customers, orders>>
    /\ UNCHANGED <<products, env, calls, op, arg>>

\* order.products.set(products)
CreateOrderSetProducts(p) ==
    /\ pc[p] = "co_set"
    /\ \E fault \in env.faults :
        IF fault
        THEN CreateOrderFails(p, "OperationalError")
        ELSE /\ txn' = [txn EXCEPT ![p].orders =
                        {SetProducts(o, loc[p].products) : o \in @}]
             /\ Goto(p, "co_save")
             /\ UNCHANGED <<customers, orders, loc>>
    /\ UNCHANGED <<products, seq, env, calls, op, arg>>

\* order.calculate_total(); order.save(update_fields=['total_amount']):
\* the call of calculate_total() in mutate(), then the one Order.save()
\* makes after writing the row
CreateOrderSaveTotal(p) ==
    /\ pc[p] = "co_save"
    /\ \E fault \in env.faults :
        IF fault
        THEN CreateOrderFails(p, "OperationalError")
        ELSE /\ txn' = [txn EXCEPT ![p].orders = {OrderSave(o, products) : o \in @}]
             /\ loc' = [loc EXCEPT ![p].order = txn'[p].orders,
                                    ![p].totals = @ \o [k \in 1..2 |->
                                        UNION {o.products : o \in txn[p].orders}]]
             /\ Goto(p, "co_commit")
             /\ UNCHANGED <<customers, orders>>
    /\ UNCHANGED <<products, seq, env, calls, op, arg>>

\* the end of the atomic block and the return
CreateOrderCommit(p) ==
    /\ pc[p] = "co_commit"
    /\ \E fault \in env.faults :
        IF fault
        THEN CreateOrderFails(p, "OperationalError")
        ELSE /\ AtomicExit(p, FALSE, FALSE)
             /\ Return(p, CreateOrderResult(loc[p].order,
                    Message("Order created successfully", 0, ""), TRUE))
             /\ loc' = [loc EXCEPT ![p] = NoLocals]
    /\ UNCHANGED <<products, seq, env, calls, op, arg>>

(* ------------------------------- filters ------------------------------- *)
\* the value of an optional argument that is there
The(v) == CHOOSE x \in v : TRUE

UpperCase == <<"A", "B", "C", "D", "E", "F", "G", "H", "I", "J", "K", "L", "M",
               "N", "O", "P", "Q", "R", "S", "T", "U", "V", "W", "X", "Y", "Z">>
LowerCase == <<"a", "b", "c", "d", "e", "f", "g", "h", "i", "j", "k", "l", "m",
               "n", "o", "p", "q", "r", "s", "t", "u", "v", "w", "x", "y", "z">>

Lower(c) ==
    IF \E i \in 1..Len(UpperCase) : UpperCase[i] = c
    THEN LowerCase[CHOOSE i \in 1..Len(UpperCase) : UpperCase[i] = c]
    ELSE c

LowerText(t) == [i \in 1..Len(t) |-> Lower(t[i])]

Contains(hay, needle) ==
    \E i \in 0..(Len(hay) - Len(needle)) : SubSeq(hay, i + 1, i + Len(needle)) = needle

\* the lookup icontains
IContains(hay, needle) == Contains(LowerText(hay), LowerText(needle))

\* the characters of the texts the store holds
Spell(text) ==
    CASE text = "John Doe" -> <<"J", "o", "h", "n", " ", "D", "o", "e">>
      [] text = "john@example.com" ->
            <<"j", "o", "h", "n", "@", "e", "x", "a", "m", "p", "l", "e", ".", "c", "o", "m">>
      [] text = "jane@example.com" ->
            <<"j", "a", "n", "e", "@", "e", "x", "a", "m", "p", "l", "e", ".", "c", "o", "m">>
      [] text = "Laptop" -> <<"L", "a", "p", "t", "o", "p">>
      [] text = "Mouse" -> <<"M", "o", "u", "s", "e">>

RECURSIVE StripLeft(_)
StripLeft(t) == IF Len(t) > 0 /\ t[1] = " " THEN StripLeft(Tail(t)) ELSE t

RECURSIVE StripRight(_)
StripRight(t) ==
    IF Len(t) > 0 /\ t[Len(t)] = " " THEN StripRight(SubSeq(t, 1, Len(t) - 1)) ELSE t

\* a CharFilter cleans its value: surrounding blanks are stripped, and an
\* empty text counts as no value
CleanText(v) ==
    IF v = Null THEN Null
    ELSE LET t == StripRight(StripLeft(The(v)))
         IN  IF t = << >> THEN Null ELSE Some(t)

\* `if filter:` of the resolvers: an input object with at least one key
Supplied(f) == \E k \in DOMAIN f : f[k] # Null

\* CustomerFilter.name, CustomerFilter.email
FilterCustomerName(rows, v) ==
    IF CleanText(v) = Null THEN rows
    ELSE {r \in rows : IContains(Spell(r.name), The(CleanText(v)))}

\* an email filter that misses the row whose email is the whole value
FilterCustomerEmailProper(rows, v) ==
    IF CleanText(v) = Null THEN rows
    ELSE {r \in rows : /\ IContains(Spell(r.email), The(CleanText(v)))
                       /\ Len(Spell(r.email)) > Len(The(CleanText(v)))}

FilterCustomerEmail(rows, v) ==
    IF CleanText(v) = Null THEN rows
    ELSE {r \in rows : IContains(Spell(r.email), The(CleanText(v)))}

\* CustomerFilter.filter_phone_pattern; a NULL phone matches no pattern
FilterPhonePattern(rows, v) ==
    IF CleanText(v) = Null THEN rows
    ELSE {r \in rows : r.phone # NoPhone /\ IContains(r.phone, The(CleanText(v)))}

\* the queryset of a bound CustomerFilter
CustomerFilterQs(rows, f) ==
    FilterPhonePattern(FilterCustomerEmail(FilterCustomerName(rows, f.name), f.email),
                       f.phone_pattern)

FilterProductName(rows, v) ==
    IF CleanText(v) = Null THEN rows
    ELSE {r \in rows : IContains(Spell(r.name), The(CleanText(v)))}

\* NumberFilter with gte, lte, exact on price and stock
FilterPriceGte(rows, v) == IF v = Null THEN rows ELSE {r \in rows : r.price >= The(v)}
FilterPriceLte(rows, v) == IF v = Null THEN rows ELSE {r \in rows : r.price <= The(v)}
FilterStock(rows, v) == IF v = Null THEN rows ELSE {r \in rows : r.stock = The(v)}
FilterStockGte(rows, v) == IF v = Null THEN rows ELSE {r \in rows : r.stock >= The(v)}
FilterStockLte(rows, v) == IF v = Null THEN rows ELSE {r \in rows : r.stock <= The(v)}

\* a low-stock filter that takes 10 for low
FilterLowStockInclusive(rows, v) ==
    IF v # Null /\ The(v) THEN {r \in rows : r.stock <= 10} ELSE rows

\* ProductFilter.filter_low_stock
FilterLowStock(rows, v) ==
    IF v # Null /\ The(v) THEN {r \in rows : r.stock < 10} ELSE rows

\* the queryset of a bound ProductFilter
ProductFilterQs(rows, f) ==
    FilterLowStock(
        FilterStockLte(
            FilterStockGte(
                FilterStock(
                    FilterPriceLte(
                        FilterPriceGte(FilterProductName(rows, f.name), f.price_gte),
                        f.price_lte),
                    f.stock),
                f.stock_gte),
            f.stock_lte),
        f.low_stock)

(* An order query is a set of joined rows: the order, the association the  *)
(* products__name join stands on and the one the products__id join stands  *)
(* on (0 where the query has no such join).  Every filter on the relation  *)
(* adds its own join, so one order can be in the result more than once.    *)
OrderRows(rows) == {[row |-> o, by_name |-> 0, by_id |-> 0] : o \in rows}

FilterTotalAmountGte(qs, v) ==
    IF v = Null THEN qs ELSE {j \in qs : j.row.total_amount >= The(v)}
FilterTotalAmountLte(qs, v) ==
    IF v = Null THEN qs ELSE {j \in qs : j.row.total_amount <= The(v)}

\* OrderFilter.customer_name, OrderFilter.customer_email
FilterOrderCustomerName(qs, v) ==
    IF CleanText(v) = Null THEN qs
    ELSE {j \in qs : \E c \in customers :
                        c.id = j.row.customer /\ IContains(Spell(c.name), The(CleanText(v)))}

FilterOrderCustomerEmail(qs, v) ==
    IF CleanText(v) = Null THEN qs
    ELSE {j \in qs : \E c \in customers :
                        c.id = j.row.customer /\ IContains(Spell(c.email), The(CleanText(v)))}

\* OrderFilter.product_name: one joined row for every associated product
\* whose name matches
FilterOrderProductName(qs, v) ==
    IF CleanText(v) = Null THEN qs
    ELSE UNION {{[j EXCEPT !.by_name = r.id] :
                    r \in {r \in products : /\ r.id \in j.row.products
                                            /\ IContains(Spell(r.name), The(CleanText(v)))}} :
                j \in qs}

\* OrderFilter.product_id
FilterOrderProductId(qs, v) ==
    IF v = Null THEN qs
    ELSE UNION {{[j EXCEPT !.by_id = i] : i \in {i \in j.row.products : i = The(v)}} :
                j \in qs}

\* Count('products') of one order: the annotation stands on a join the query
\* already has, and counts the associations of a query that has none
CountProducts(qs, o) ==
    IF \E j \in qs : j.by_name # 0 \/ j.by_id # 0
    THEN Cardinality({j \in qs : j.row = o})
    ELSE Cardinality(o.products)

\* OrderFilter.filter_product_count: `if value:`, then one row per order
FilterProductCount(qs, v) ==
    IF v # Null /\ The(v) # 0
    THEN OrderRows({o \in {j.row : j \in qs} : CountProducts(qs, o) = The(v)})
    ELSE qs

\* a high-value filter that takes 500 for high
FilterHighValueInclusive(qs, v) ==
    IF v # Null /\ The(v) THEN {j \in qs : j.row.total_amount >= 500000} ELSE qs

\* OrderFilter.filter_high_value
FilterHighValue(qs, v) ==
    IF v # Null /\ The(v) THEN {j \in qs : j.row.total_amount > 500000} ELSE qs

\* the queryset of a bound OrderFilter, the filters applied in the order
\* they are declared
OrderFilterQs(rows, f) ==
    FilterHighValue(
        FilterProductCount(
            FilterOrderProductId(
                FilterOrderProductName(
                    FilterOrderCustomerEmail(
                        FilterOrderCustomerName(
                            FilterTotalAmountLte(
                                FilterTotalAmountGte(OrderRows(rows), f.total_amount_gte),
                                f.total_amount_lte),
                            f.customer_name),
                        f.customer_email),
                    f.product_name),
                f.product_id),
            f.product_count),
        f.high_value)

\* the names order_by resolves on each model: its fields, its relations and
\* the alias pk
CustomerFields == {"id", "pk", "name", "email", "phone", "created_at", "orders"}
ProductFields == {"id", "pk", "name", "price", "stock", "created_at", "orders"}
OrderFields == {"id", "pk", "customer", "products", "order_date", "total_amount",
                "created_at"}

NoOrdering == [error |-> FALSE, field |-> "", desc |-> FALSE]

\* `if order_by: queryset.order_by(order_by)`: an order_by text is a sequence
\* of its "-" marker, if any, and the name; "?" asks for a random order and a
\* name that is no field of the model raises FieldError
ResolveOrderBy(fields, order_by) ==
    IF order_by = Null \/ The(order_by) = << >> \/ The(order_by) = <<"?">>
    THEN NoOrdering
    ELSE LET text == The(order_by)
             desc == text[1] = "-"
             name == IF desc THEN Tail(text) ELSE text
         IN  IF Len(name) = 1 /\ name[1] \in fields
             THEN [error |-> FALSE, field |-> name[1], desc |-> desc]
             ELSE [error |-> TRUE, field |-> "", desc |-> desc]

\* the column a numeric ordering compares
KeyOf(row, field) ==
    CASE field \in {"id", "pk"} -> row.id
      [] field = "price" -> row.price
      [] field = "stock" -> row.stock
      [] field = "total_amount" -> row.total_amount

\* an ordering that ignores its key
SortedAnyhow(s, ord) == TRUE

Sorted(s, ord) ==
    ord.field # "" =>
        \A i \in 1..(Len(s) - 1) :
            IF ord.desc
            THEN KeyOf(s[i], ord.field) >= KeyOf(s[i + 1], ord.field)
            ELSE KeyOf(s[i], ord.field) <= KeyOf(s[i + 1], ord.field)

\* the sequences the database may return for a query: every joined row
\* once, in the order asked for, in any order where none is asked for
Evaluate(qs, ord) ==
    {s \in {[i \in 1..Cardinality(qs) |-> t[i].row] :
                t \in {t \in [1..Cardinality(qs) -> qs] :
                          \A i, j \in 1..Cardinality(qs) : i # j => t[i] # t[j]}} :
        Sorted(s, ord)}

\* what the clients of the query fields send
CustomerFilterInput ==
    [name : {Null, Some(<<"J", "O", "H", "N">>)},
     email : {Null, Some(Spell("john@example.com")), Some(Spell("jane@example.com")),
              Some(<<" ">> \o Spell("jane@example.com"))},
     phone_pattern : {Null, Some(<<"+", "1">>)}]

ProductFilterInput ==
    [name : {Null, Some(<<"l", "a", "p">>)},
     price_gte : {Null}, price_lte : {Null, Some(500000)},
     stock : {Null}, stock_gte : {Null, Some(10)}, stock_lte : {Null},
     low_stock : {Null, Some(TRUE), Some(FALSE)}]

OrderFilterInput(counts) ==
    [total_amount_gte : {Null}, total_amount_lte : {Null},
     customer_name : {Null}, customer_email : {Null, Some(Spell("john@example.com"))},
     product_name : {Null, Some(<<"L", "A", "P">>), Some(<<"o">>)},
     product_id : {Null, Some(2)},
     product_count : counts,
     high_value : {Null, Some(TRUE)}]

ProductCounts == {Null, Some(0), Some(1), Some(2)}

OrderByInput ==
    {Null, Some(<< >>), Some(<<"?">>), Some(<<"-", "id">>), Some(<<"stock">>),
     Some(<<"total_amount">>), Some(<<"-", "bogus">>)}

QueryResult(rows) == [rows |-> rows]

\* a query field is resolved in one read of the committed rows
Query(p, name, f, order_by, qs, fields) ==
    /\ env' = [env EXCEPT !.queries = @ - 1]
    /\ Begin(p, name, [filter |-> f, order_by |-> order_by])
    /\ IF ResolveOrderBy(fields, order_by).error
       THEN Raise(p)
       ELSE \E s \in Evaluate(qs, ResolveOrderBy(fields, order_by)) :
                Return(p, QueryResult(s))
    /\ UNCHANGED <<store, seq, loc, txn>>

\* a caller may send a query
MayQuery(p) == MayCall(p) /\ env.queries > 0

\* Query.resolve_filter_customers
FilterCustomers(p) ==
    MayQuery(p) /\ \E f \in CustomerFilterInput, order_by \in OrderByInput :
        Query(p, "filterCustomers", f, order_by,
              OrderRows(IF Supplied(f) THEN CustomerFilterQs(customers, f) ELSE customers),
              CustomerFields)

\* Query.resolve_filter_products
FilterProducts(p) ==
    MayQuery(p) /\ \E f \in ProductFilterInput, order_by \in OrderByInput :
        Query(p, "filterProducts", f, order_by,
              OrderRows(IF Supplied(f) THEN ProductFilterQs(products, f) ELSE products),
              ProductFields)

\* Query.resolve_filter_orders: OrderFilterInput has no product_count
FilterOrders(p) ==
    MayQuery(p) /\ \E f \in OrderFilterInput({Null}), order_by \in OrderByInput :
        Query(p, "filterOrders", f, order_by,
              IF Supplied(f) THEN OrderFilterQs(orders, f) ELSE OrderRows(orders),
              OrderFields)

\* Query.all_orders: the connection field takes every filter of OrderFilter
AllOrders(p) ==
    MayQuery(p) /\ \E f \in OrderFilterInput(ProductCounts) :
        Query(p, "allOrders", f, Null, OrderFilterQs(orders, f), OrderFields)

(* ---------------------------- background jobs -------------------------- *)
\* what requests.post(...) to the GraphQL endpoint can end in: a refused
\* connection, a timeout, a status other than 200, and a 200 whose body is
\* no JSON, carries "errors", carries no result, or carries the result
HttpOutcomes == {"refused", "timeout", "status", "invalid_json", "errors", "empty", "ok"}

\* the double nearest to an amount
Float(mills) == [nearest |-> mills]

JobStart(j, label, locals) ==
    /\ job[j].pc = "idle"
    /\ env.runs > 0
    /\ env' = [env EXCEPT !.runs = @ - 1]
    /\ job' = [job EXCEPT ![j] = [pc |-> label, loc |-> locals, outcome |-> "none",
                                  result |-> NoResult]]

\* open(path, 'a') and write: the file is created if it is missing
WriteLines(name, lines) == [logs EXCEPT ![name] = @ \o lines, !.files = @ \cup {name}]

JobGoto(j, label, locals) == job' = [job EXCEPT ![j].pc = label, ![j].loc = locals]

JobReturn(j, r) ==
    job' = [job EXCEPT ![j].pc = "idle", ![j].outcome = "returned", ![j].result = r]

JobRaise(j, exc) ==
    job' = [job EXCEPT ![j].pc = "idle", ![j].outcome = "raised",
                       ![j].result = [exception |-> exc]]

\* update_low_stock without its last `except Exception`
LowStockHandlersNoCatchAll(http) ==
    CASE http \in {"refused", "timeout"} -> {"network"}
      [] http = "invalid_json" -> {"network", "json"}
      [] http \in {"status", "errors", "empty"} -> {}
      [] http = "ok" -> {"result"}

\* the branch of update_low_stock that writes the log entry: the try body
\* for a result, otherwise the except clause that catches what was raised.
\* What response.json() raises for a body that is no JSON depends on the
\* installed requests and json libraries, so any of the three clauses may
\* catch it.
LowStockHandlers(http) ==
    CASE http \in {"refused", "timeout"} -> {"network"}
      [] http = "invalid_json" -> {"network", "json", "unexpected"}
      [] http \in {"status", "errors", "empty"} -> {"unexpected"}
      [] http = "ok" -> {"result"}

\* update_low_stock up to the write of its log entry; an exception that no
\* except clause catches leaves the function
UpdateLowStockPost ==
    /\ \E http \in HttpOutcomes :
        IF LowStockHandlers(http) = {}
        THEN /\ job["update_low_stock"].pc = "idle"
             /\ env.runs > 0
             /\ env' = [env EXCEPT !.runs = @ - 1]
             /\ job' = [job EXCEPT !["update_low_stock"] =
                            [pc |-> "idle", loc |-> [NoJobLocals EXCEPT !.http = http],
                             outcome |-> "raised", result |-> [exception |-> "Exception"]]]
        ELSE \E entry \in LowStockHandlers(http) :
                JobStart("update_low_stock", "ls_write",
                         [NoJobLocals EXCEPT !.http = http, !.entry = entry])
    /\ UNCHANGED <<store, seq, calls, pc, op, arg, loc, txn, outcome, result, logs>>

\* with open('/tmp/low_stock_updates_log.txt', 'a') as f: f.write(...).  A
\* failing write of the result is caught by `except Exception`, whose own
\* write is not inside any try.
UpdateLowStockWrite ==
    /\ job["update_low_stock"].pc = "ls_write"
    /\ \E fault \in env.log_faults :
        LET l == job["update_low_stock"].loc
        IN  IF ~fault
            THEN /\ logs' = WriteLines("low_stock", << [entry |-> l.entry, http |-> l.http] >>)
                 /\ JobReturn("update_low_stock", NoResult)
            ELSE IF l.entry = "result"
            THEN /\ JobGoto("update_low_stock", "ls_write",
                            [l EXCEPT !.entry = "unexpected", !.failed = "log"])
                 /\ UNCHANGED logs
            ELSE /\ JobRaise("update_low_stock", "OSError")
                 /\ UNCHANGED logs
    /\ UNCHANGED <<store, seq, env, calls, pc, op, arg, loc, txn, outcome, result>>

ReportData(total_customers, total_orders, total_revenue) ==
    [total_customers |-> total_customers, total_orders |-> total_orders,
     total_revenue |-> total_revenue]

RECURSIVE SumTotalAmount(_)
SumTotalAmount(rows) ==
    IF rows = {} THEN 0
    ELSE LET o == CHOOSE o \in rows : TRUE
         IN  o.total_amount + SumTotalAmount(rows \ {o})

\* a fetch that takes a body with "errors" for an empty answer
FetchReportIgnoringErrors(http) ==
    IF http = "ok" THEN Some(ReportData(Cardinality(customers), Cardinality(orders),
                                        Float(SumTotalAmount(orders))))
    ELSE IF http = "errors" THEN Some(ReportData(0, 0, Float(0)))
    ELSE Null

\* _fetch_report_via_graphql: the totals taken from the answer of the
\* endpoint, None for anything else
FetchReportViaGraphql(http) ==
    IF http = "ok" THEN Some(ReportData(Cardinality(customers), Cardinality(orders),
                                        Float(SumTotalAmount(orders))))
    ELSE Null

\* generate_crm_report: the fetch, and `if not report_data`
GenerateCrmReportFetch ==
    /\ \E http \in HttpOutcomes :
        LET data == FetchReportViaGraphql(http)
        IN  JobStart("generate_crm_report",
                     IF data = Null THEN "rp_count_customers" ELSE "rp_write_report",
                     [NoJobLocals EXCEPT !.http = http, !.data = data,
                                         !.fallback = (data = Null)])
    /\ UNCHANGED <<store, seq, calls, pc, op, arg, loc, txn, outcome, result, logs>>

\* an exception inside the try of generate_crm_report
ReportFails(l, what) == JobGoto("generate_crm_report", "rp_error", [l EXCEPT !.failed = what])

\* _fetch_report_via_database: Customer.objects.count()
GenerateCrmReportCountCustomers ==
    /\ job["generate_crm_report"].pc = "rp_count_customers"
    /\ \E fault \in env.faults :
        LET l == job["generate_crm_report"].loc
        IN  IF fault THEN ReportFails(l, "db")
            ELSE JobGoto("generate_crm_report", "rp_count_orders",
                         [l EXCEPT !.data = Some(ReportData(Cardinality(customers), 0, Float(0)))])
    /\ UNCHANGED <<store, seq, env, calls, pc, op, arg, loc, txn, outcome, result, logs>>

\* _fetch_report_via_database: Order.objects.count()
GenerateCrmReportCountOrders ==
    /\ job["generate_crm_report"].pc = "rp_count_orders"
    /\ \E fault \in env.faults :
        LET l == job["generate_crm_report"].loc
        IN  IF fault THEN ReportFails(l, "db")
            ELSE JobGoto("generate_crm_report", "rp_sum_revenue",
                         [l EXCEPT !.data = {[d EXCEPT !.total_orders = Cardinality(orders)] :
                                                d \in @}])
    /\ UNCHANGED <<store, seq, env, calls, pc, op, arg, loc, txn, outcome, result, logs>>

\* _fetch_report_via_database: float(Sum('total_amount') or 0)
GenerateCrmReportSumRevenue ==
    /\ job["generate_crm_report"].pc = "rp_sum_revenue"
    /\ \E fault \in env.faults :
        LET l == job["generate_crm_report"].loc
        IN  IF fault THEN ReportFails(l, "db")
            ELSE JobGoto("generate_crm_report", "rp_write_report",
                         [l EXCEPT !.data = {[d EXCEPT !.total_revenue =
                                                Float(SumTotalAmount(orders))] : d \in @}])
    /\ UNCHANGED <<store, seq, env, calls, pc, op, arg, loc, txn, outcome, result, logs>>

\* the report line is appended to /tmp/crm_report_log.txt
GenerateCrmReportWriteReport ==
    /\ job["generate_crm_report"].pc = "rp_write_report"
    /\ \E fault \in env.log_faults :
        LET l == job["generate_crm_report"].loc
        IN  IF fault
            THEN ReportFails(l, "log") /\ UNCHANGED logs
            ELSE /\ logs' = WriteLines("report", << [entry |-> "report", data |-> l.data] >>)
                 /\ JobGoto("generate_crm_report", "rp_write_detail", l)
    /\ UNCHANGED <<store, seq, env, calls, pc, op, arg, loc, txn, outcome, result>>

\* detailed_message: the heading, the three totals, "Report Generated
\* Successfully" and the rule, a line each
DetailedMessage(data) ==
    [k \in 1..6 |-> [entry |-> <<"detail", "total_customers", "total_orders",
                                 "total_revenue", "generated", "rule">>[k],
                     data |-> data]]

\* the detailed report is appended, and the result returned
GenerateCrmReportWriteDetail ==
    /\ job["generate_crm_report"].pc = "rp_write_detail"
    /\ \E fault \in env.log_faults :
        LET l == job["generate_crm_report"].loc
        IN  IF fault
            THEN ReportFails(l, "log") /\ UNCHANGED logs
            ELSE /\ logs' = WriteLines("report", DetailedMessage(l.data))
                 /\ JobReturn("generate_crm_report", [success |-> TRUE, data |-> l.data])
    /\ UNCHANGED <<store, seq, env, calls, pc, op, arg, loc, txn, outcome, result>>

\* except Exception: the error line is appended if the log can be written,
\* and success=False is returned
GenerateCrmReportError ==
    /\ job["generate_crm_report"].pc = "rp_error"
    /\ \E fault \in env.log_faults :
        /\ logs' = IF fault THEN logs
                   ELSE WriteLines("report", << [entry |-> "error", data |-> Null] >>)
        /\ JobReturn("generate_crm_report", [success |-> FALSE, data |-> Null])
    /\ UNCHANGED <<store, seq, env, calls, pc, op, arg, loc, txn, outcome, result>>

(* -------------------- generate_crm_report_with_retry ------------------- *)
\* a retry asked for after every failure
MayRetryAlways(retries) == TRUE

\* self.request.retries < self.max_retries
MayRetry(retries) == retries < MaxRetries

\* generate_crm_report_with_retry.delay(): the task is put on the queue
GenerateCrmReportWithRetrySubmit ==
    /\ JobStart("generate_crm_report_with_retry", "rt_queued", NoJobLocals)
    /\ UNCHANGED <<store, seq, calls, pc, op, arg, loc, txn, outcome, result, logs>>

\* a worker takes the task from the queue and runs it: the fetch, and
\* `if not report_data`
GenerateCrmReportWithRetryFetch ==
    /\ job["generate_crm_report_with_retry"].pc = "rt_queued"
    /\ \E http \in HttpOutcomes :
        LET l == job["generate_crm_report_with_retry"].loc
            data == FetchReportViaGraphql(http)
        IN  JobGoto("generate_crm_report_with_retry",
                    IF data = Null THEN "rt_database" ELSE "rt_write",
                    [l EXCEPT !.http = http, !.data = data, !.fallback = (data = Null),
                              !.entry = "customers", !.failed = "",
                              !.attempts = @ + 1])
    /\ UNCHANGED <<store, seq, env, calls, pc, op, arg, loc, txn, outcome, result, logs>>

\* _fetch_report_via_database: the two counts and the sum, one query each
GenerateCrmReportWithRetryDatabase ==
    /\ job["generate_crm_report_with_retry"].pc = "rt_database"
    /\ \E fault \in env.faults :
        LET l == job["generate_crm_report_with_retry"].loc
        IN  IF fault
            THEN JobGoto("generate_crm_report_with_retry", "rt_error",
                         [l EXCEPT !.failed = "db"])
            ELSE IF l.entry = "customers"
            THEN JobGoto("generate_crm_report_with_retry", "rt_database",
                         [l EXCEPT !.entry = "orders",
                                   !.data = Some(ReportData(Cardinality(customers), 0,
                                                            Float(0)))])
            ELSE IF l.entry = "orders"
            THEN JobGoto("generate_crm_report_with_retry", "rt_database",
                         [l EXCEPT !.entry = "revenue",
                                   !.data = {[d EXCEPT !.total_orders = Cardinality(orders)] :
                                                d \in @}])
            ELSE JobGoto("generate_crm_report_with_retry", "rt_write",
                         [l EXCEPT !.data = {[d EXCEPT !.total_revenue =
                                                Float(SumTotalAmount(orders))] : d \in @}])
    /\ UNCHANGED <<store, seq, env, calls, pc, op, arg, loc, txn, outcome, result, logs>>

\* the report line is appended and the result returned
GenerateCrmReportWithRetryWrite ==
    /\ job["generate_crm_report_with_retry"].pc = "rt_write"
    /\ \E fault \in env.log_faults :
        LET l == job["generate_crm_report_with_retry"].loc
        IN  IF fault
            THEN /\ JobGoto("generate_crm_report_with_retry", "rt_error",
                            [l EXCEPT !.failed = "log"])
                 /\ UNCHANGED logs
            ELSE /\ logs' = WriteLines("report", << [entry |-> "report", data |-> l.data] >>)
                 /\ JobReturn("generate_crm_report_with_retry",
                              [success |-> TRUE, data |-> l.data])
    /\ UNCHANGED <<store, seq, env, calls, pc, op, arg, loc, txn, outcome, result>>

\* except Exception: the error line is appended if the log can be written;
\* then `raise self.retry(...)` puts the task back on the queue with one
\* more retry counted, or success=False is returned
GenerateCrmReportWithRetryError ==
    /\ job["generate_crm_report_with_retry"].pc = "rt_error"
    /\ \E fault \in env.log_faults :
        LET l == job["generate_crm_report_with_retry"].loc
        IN  /\ logs' = IF fault THEN logs
                       ELSE WriteLines("report", << [entry |-> "error", data |-> Null] >>)
            /\ IF MayRetry(l.retries)
               THEN JobGoto("generate_crm_report_with_retry", "rt_queued",
                            [l EXCEPT !.retries = @ + 1])
               ELSE JobReturn("generate_crm_report_with_retry",
                              [success |-> FALSE, data |-> Null])
    /\ UNCHANGED <<store, seq, env, calls, pc, op, arg, loc, txn, outcome, result>>

(* --------------------------- log_crm_heartbeat ------------------------- *)
\* a check whose exceptions are not caught where they are raised
HeartbeatCheckUncaught(http) ==
    CASE http \in {"ok", "empty"} -> "GraphQL endpoint responsive"
      [] http = "errors" -> "GraphQL endpoint has errors"
      [] http = "status" -> "GraphQL endpoint not responding"
      [] http \in {"refused", "timeout", "invalid_json"} -> "raise"

\* what the check of the hello field adds to the message: a 200 answer
\* without "errors", one with "errors", another status, and the inner
\* `except Exception` for everything that raises
HeartbeatCheck(http) ==
    CASE http \in {"ok", "empty"} -> "GraphQL endpoint responsive"
      [] http = "errors" -> "GraphQL endpoint has errors"
      [] http = "status" -> "GraphQL endpoint not responding"
      [] http \in {"refused", "timeout", "invalid_json"} -> "GraphQL check failed"

\* log_crm_heartbeat up to the write: message = "<timestamp> CRM is alive"
\* and the outcome of the check
LogCrmHeartbeatCheck ==
    /\ \E http \in HttpOutcomes :
        LET note == HeartbeatCheck(http)
        IN  JobStart("log_crm_heartbeat", IF note = "raise" THEN "hb_error" ELSE "hb_write",
                     [NoJobLocals EXCEPT !.http = http, !.entry = note])
    /\ UNCHANGED <<store, seq, calls, pc, op, arg, loc, txn, outcome, result, logs>>

\* with open('/tmp/crm_heartbeat_log.txt', 'a') as f: f.write(message)
LogCrmHeartbeatWrite ==
    /\ job["log_crm_heartbeat"].pc = "hb_write"
    /\ \E fault \in env.log_faults :
        LET l == job["log_crm_heartbeat"].loc
        IN  IF fault
            THEN /\ JobGoto("log_crm_heartbeat", "hb_error", [l EXCEPT !.failed = "log"])
                 /\ UNCHANGED logs
            ELSE /\ logs' = WriteLines("heartbeat", << [text |-> "CRM is alive", note |-> l.entry] >>)
                 /\ JobReturn("log_crm_heartbeat", NoResult)
    /\ UNCHANGED <<store, seq, env, calls, pc, op, arg, loc, txn, outcome, result>>

\* the outer except: the error line is appended, or the failure printed
LogCrmHeartbeatError ==
    /\ job["log_crm_heartbeat"].pc = "hb_error"
    /\ \E fault \in env.log_faults :
        /\ logs' = IF fault THEN logs
                   ELSE WriteLines("heartbeat", << [text |-> "CRM heartbeat ERROR", note |-> ""] >>)
        /\ JobReturn("log_crm_heartbeat", NoResult)
    /\ UNCHANGED <<store, seq, env, calls, pc, op, arg, loc, txn, outcome, result>>

(* -------------------------- cleanup_old_reports ------------------------ *)
CleanupResult(success, message, lines_before, lines_after) ==
    [success |-> success, message |-> message, lines_before |-> lines_before,
     lines_after |-> lines_after]

\* the first n lines kept instead of the last
FirstLines(lines, n) == SubSeq(lines, 1, n)

\* lines[-n:] for a list of more than n lines
LastLines(lines, n) == SubSeq(lines, Len(lines) - n + 1, Len(lines))

\* cleanup_old_reports up to f.readlines(): a missing file ends the task
CleanupOldReportsRead ==
    /\ \E fault \in env.log_faults :
        IF "report" \notin logs.files
        THEN /\ job["cleanup_old_reports"].pc = "idle"
             /\ env.runs > 0
             /\ env' = [env EXCEPT !.runs = @ - 1]
             /\ job' = [job EXCEPT !["cleanup_old_reports"] =
                            [pc |-> "idle", loc |-> NoJobLocals, outcome |-> "returned",
                             result |-> CleanupResult(TRUE, "No log file to clean",
                                                      Null, Null)]]
        ELSE IF fault
        THEN /\ job["cleanup_old_reports"].pc = "idle"
             /\ env.runs > 0
             /\ env' = [env EXCEPT !.runs = @ - 1]
             /\ job' = [job EXCEPT !["cleanup_old_reports"] =
                            [pc |-> "idle", loc |-> [NoJobLocals EXCEPT !.failed = "log"],
                             outcome |-> "returned",
                             result |-> CleanupResult(FALSE, "Failed to cleanup reports",
                                                      Null, Null)]]
        ELSE JobStart("cleanup_old_reports", "cl_rewrite",
                      [NoJobLocals EXCEPT !.lines = logs.report])
    /\ UNCHANGED <<store, seq, calls, pc, op, arg, loc, txn, outcome, result, logs>>

\* `if len(lines) > 500`: the file is opened for writing, which empties
\* it, and the last 500 of the lines read are written; then the result
CleanupOldReportsRewrite ==
    /\ job["cleanup_old_reports"].pc = "cl_rewrite"
    /\ \E fault \in env.log_faults :
        LET l == job["cleanup_old_reports"].loc
            n == Len(l.lines)
        IN  IF n <= KeepLines
            THEN /\ JobReturn("cleanup_old_reports",
                        CleanupResult(TRUE, "Report log is manageable size", Some(n), Some(n)))
                 /\ UNCHANGED logs
            ELSE IF fault
            THEN /\ \E left \in {logs.report, << >>} :
                        logs' = [logs EXCEPT !.report = left]
                 /\ JobReturn("cleanup_old_reports",
                        CleanupResult(FALSE, "Failed to cleanup reports", Null, Null))
            ELSE /\ logs' = [logs EXCEPT !.report = LastLines(l.lines, KeepLines)]
                 /\ JobReturn("cleanup_old_reports",
                        CleanupResult(TRUE, "Cleaned up report log, kept last 500 lines",
                                      Some(n), Some(IF n < KeepLines THEN n ELSE KeepLines)))
    /\ UNCHANGED <<store, seq, env, calls, pc, op, arg, loc, txn, outcome, result>>

(* ------------------------------- behaviour ----------------------------- *)
\* the report log is missing or holds 0, 1, 494, 500, 501 or 502 lines of
\* earlier reports, each told from the others by its count
InitCleanup ==
    /\ InitStore
    /\ InitProcs
    /\ \/ logs = NoLogs
       \/ \E n \in {0, 1, 494, 500, 501, 502} :
            logs = [NoLogs EXCEPT !.report =
                        [k \in 1..n |->
                            [entry |-> "old", data |-> Some(ReportData(k, 0, Float(0)))]],
                                  !.files = {"report"}]
    /\ env = [callers |-> {}, faults |-> {FALSE}, max_calls |-> 0,
              phones |-> {NoPhone}, bulk_phones |-> {NoPhone},
              max_batch |-> 1, prices |-> {25500}, stocks |-> {Null},
              queries |-> 0, log_faults |-> BOOLEAN, runs |-> MaxCleanupRuns, schema |-> "crm"]

NextCleanup ==
    \/ CleanupOldReportsRead
    \/ CleanupOldReportsRewrite
    \/ GenerateCrmReportFetch
    \/ GenerateCrmReportCountCustomers
    \/ GenerateCrmReportCountOrders
    \/ GenerateCrmReportSumRevenue
    \/ GenerateCrmReportWriteReport
    \/ GenerateCrmReportWriteDetail
    \/ GenerateCrmReportError

\* phones: absent, valid in either form, too short, and valid ones followed
\* by a letter, a digit too many or a newline
PhoneInputs ==
    LET DashedPhone == <<"1", "2", "3", "-", "4", "5", "6", "-", "7", "8", "9", "0">>
    IN
    {NoPhone, GoodPhone, DashedPhone, BadPhone,
     GoodPhone \o <<"x">>, DashedPhone \o <<"x">>, GoodPhone \o <<"\n">>,
     <<"1", "2", "3", "4", "5", "6", "7", "8", "9", "0", "1", "2", "3", "4", "5", "6">>}

\* one caller of the mutations of alx_backend_graphql_crm/schema.py
InitPhone ==
    /\ InitStore
    /\ InitCallers
    /\ env = [callers |-> {"w1"}, faults |-> {FALSE}, max_calls |-> MaxPhoneCalls,
              phones |-> PhoneInputs, bulk_phones |-> PhoneInputs,
              max_batch |-> 1, prices |-> {25500}, stocks |-> {Null},
              queries |-> 0, log_faults |-> {FALSE}, runs |-> 0, schema |-> "alx"]

InitHeartbeat ==
    /\ InitStore
    /\ InitCallers
    /\ env = [callers |-> {}, faults |-> {FALSE}, max_calls |-> 0,
              phones |-> {NoPhone}, bulk_phones |-> {NoPhone},
              max_batch |-> 1, prices |-> {25500}, stocks |-> {Null},
              queries |-> 0, log_faults |-> BOOLEAN, runs |-> MaxHeartbeats, schema |-> "crm"]

NextHeartbeat ==
    \/ LogCrmHeartbeatCheck
    \/ LogCrmHeartbeatWrite
    \/ LogCrmHeartbeatError

InitRetry ==
    /\ InitStore
    /\ InitCallers
    /\ env = [callers |-> {}, faults |-> BOOLEAN, max_calls |-> 0,
              phones |-> {NoPhone}, bulk_phones |-> {NoPhone},
              max_batch |-> 1, prices |-> {25500}, stocks |-> {Null},
              queries |-> 0, log_faults |-> BOOLEAN, runs |-> MaxSubmissions, schema |-> "crm"]

RetryRuns ==
    \/ GenerateCrmReportWithRetryFetch
    \/ GenerateCrmReportWithRetryDatabase
    \/ GenerateCrmReportWithRetryWrite
    \/ GenerateCrmReportWithRetryError

NextRetry == GenerateCrmReportWithRetrySubmit \/ RetryRuns

Next ==
    \E p \in Procs :
        \/ CreateCustomerCheck(p)
        \/ CreateCustomerCreate(p)
        \/ BulkCreateCustomersEnter(p)
        \/ BulkCreateCustomersItem(p)
        \/ BulkCreateCustomersCreate(p)
        \/ BulkCreateCustomersExit(p)
        \/ CreateProduct(p)
        \/ CreateOrderValidate(p)
        \/ CreateOrderCreate(p)
        \/ CreateOrderSetProducts(p)
        \/ CreateOrderSaveTotal(p)
        \/ CreateOrderCommit(p)

NextCustomers ==
    \E p \in Procs :
        \/ CreateCustomerCheck(p)
        \/ CreateCustomerCreate(p)
        \/ BulkCreateCustomersEnter(p)
        \/ BulkCreateCustomersItem(p)
        \/ BulkCreateCustomersCreate(p)
        \/ BulkCreateCustomersExit(p)

\* the mutations and the query fields
NextQuery ==
    \/ Next
    \/ \E p \in Procs :
        \/ FilterCustomers(p)
        \/ FilterProducts(p)
        \/ FilterOrders(p)
        \/ AllOrders(p)

\* the mutations beside the background jobs
NextJobs ==
    \/ Next
    \/ UpdateLowStockPost
    \/ UpdateLowStockWrite
    \/ GenerateCrmReportFetch
    \/ GenerateCrmReportCountCustomers
    \/ GenerateCrmReportCountOrders
    \/ GenerateCrmReportSumRevenue
    \/ GenerateCrmReportWriteReport
    \/ GenerateCrmReportWriteDetail
    \/ GenerateCrmReportError

\* concurrent callers and store faults
Spec == Init /\ [][Next]_vars

\* one mutation run alone on a store that does not fail
SpecSeq == InitSeq /\ [][Next]_vars

\* the customer mutations racing on a store that does not fail
SpecRace == InitRace /\ [][NextCustomers]_vars

\* one caller running mutations and queries on a store that does not fail
SpecQuery == InitQuery /\ [][NextQuery]_vars

\* the background jobs beside a caller, with store, network and log faults
SpecJobs == InitJobs /\ [][NextJobs]_vars

\* one submission of the retrying report task; the worker goes on running
\* a task that is on its queue or in execution
SpecRetry == InitRetry /\ [][NextRetry]_vars /\ WF_vars(RetryRuns)

\* the heartbeat called again and again on a log that may not be writable
SpecHeartbeat == InitHeartbeat /\ [][NextHeartbeat]_vars

\* the cleanup of the report log beside the task that writes it
SpecCleanup == InitCleanup /\ [][NextCleanup]_vars

\* CreateCustomer and BulkCreateCustomers of alx_backend_graphql_crm/schema.py
SpecPhone == InitPhone /\ [][NextCustomers]_vars

(* ------------------------------ properties ----------------------------- *)
\* caller p starts mutation `name` in this step
Starts(p, name) == calls'[p] = calls[p] + 1 /\ op'[p] = name

Returned(p, name) == op[p] = name /\ pc[p] = "idle" /\ outcome[p] = "returned"

RECURSIVE PriceSum(_)
PriceSum(ids) ==
    IF ids = {} THEN 0
    ELSE LET i == CHOOSE i \in ids : TRUE
         IN  (CHOOSE r \in products : r.id = i).price + PriceSum(ids \ {i})

\* C1: every committed order's total_amount is the sum of the prices of the
\* products associated with it, whatever mutations succeeded or failed before.
C1_TotalIsSumOfPrices ==
    \A o \in orders :
        /\ \A i \in o.products : \E r \in products : r.id = i
        /\ o.total_amount = PriceSum(o.products)

\* an order of two products, one of them created by CreateProduct, is committed
C1_Witness ==
    /\ \E o \in orders : Cardinality(o.products) = 2 /\ o.total_amount > 0
    /\ seq.product = 2

InOrderBlock(p) == pc[p] \in {"co_create", "co_set", "co_save", "co_commit"}

\* C2: a step of CreateOrder inside its atomic block either stays in the block
\* and leaves the committed orders alone, or returns success with the whole
\* order committed, or (a fault) returns success=false with order=null and
\* leaves no order row and no association behind; it never raises.
C2_FaultLeavesNoPartialOrder ==
    [][\A p \in Procs :
        (InOrderBlock(p) /\ pc'[p] # pc[p]) =>
            IF pc'[p] # "idle"
            THEN orders' = orders
            ELSE /\ outcome'[p] = "returned"
                 /\ txn'[p] = NoTxn
                 /\ IF result'[p].success
                    THEN /\ result'[p].order \subseteq orders'
                         /\ orders' \ orders = result'[p].order
                         /\ \A o \in result'[p].order :
                               o.products = {arg[p].product_ids[k] :
                                                k \in 1..Len(arg[p].product_ids)}
                    ELSE /\ result'[p].order = Null
                         /\ orders' = orders]_vars

\* a CreateOrder whose row had been inserted failed, and no row is left
C2_Witness ==
    \E p \in Procs :
        /\ Returned(p, "CreateOrder")
        /\ result[p].message.text = "Error creating order"
        /\ seq.order = 1
        /\ orders = {}
        /\ \A q \in Procs : txn[q].orders = {}

\* the emails a caller's last result reports as created
ReportedCreated(p) ==
    IF Returned(p, "CreateCustomer")
    THEN {c.email : c \in result[p].customer}
    ELSE IF Returned(p, "BulkCreateCustomers")
    THEN {result[p].customers[k].email : k \in 1..Len(result[p].customers)}
    ELSE {}

\* no two stored customers share an email
UniqueEmails == \A c, d \in customers : c.email = d.email => c = d

\* C3: under every interleaving of CreateCustomer and BulkCreateCustomers calls
\* no two stored customers share an email, and no email is reported as
\* created by two calls.
C3_UniqueEmailOneReporter ==
    /\ UniqueEmails
    /\ \A p, q \in Procs : p # q => ReportedCreated(p) \cap ReportedCreated(q) = {}

\* C4: CreateCustomer with an email a stored customer has returns
\* success=false, customer=null and "Email already exists", and stores nothing.
C4_DuplicateEmailRejected ==
    [][\A p \in Procs :
        (Starts(p, "CreateCustomer") /\ \E c \in customers : c.email = arg'[p].email) =>
            /\ pc'[p] = "idle"
            /\ outcome'[p] = "returned"
            /\ result'[p] = [customer |-> {}, success |-> FALSE,
                             message |-> [text |-> "Email already exists", id |-> 0,
                                          exc |-> ""]]
            /\ customers' = customers]_vars

\* a CreateCustomer for a stored email returned the duplicate message
C4_Witness ==
    \E p \in Procs :
        /\ Returned(p, "CreateCustomer")
        /\ result[p].message.text = "Email already exists"
        /\ \E c \in customers : c.email = arg[p].email

\* C5: no mutation lets an exception reach its caller, whatever store fault
\* happens.
C5_NeverRaises == \A p \in Procs : outcome[p] # "raised"

\* C6: a step of CreateCustomer or CreateProduct that is not the successful
\* return leaves customers, products and orders as they were, so a call that
\* returns success=false has changed nothing.
C6_FailureChangesNothing ==
    [][\A p \in Procs :
        (/\ \/ Starts(p, "CreateCustomer")
            \/ Starts(p, "CreateProduct")
            \/ pc[p] = "cc_create" /\ pc'[p] # pc[p]
         /\ ~(outcome'[p] = "returned" /\ result'[p].success)) =>
            store' = store]_vars

\* a CreateCustomer failed at its INSERT and a CreateProduct failed
C6_Witness ==
    /\ \E p \in Procs :
        /\ Returned(p, "CreateCustomer")
        /\ result[p].message.text = "Error creating customer"
    /\ \E p \in Procs :
        /\ Returned(p, "CreateProduct")
        /\ ~result[p].success

\* the emails taken after the first k items of a batch, e0 being the stored ones
RECURSIVE TakenEmails(_, _, _)
TakenEmails(batch, e0, k) ==
    IF k = 0 THEN e0
    ELSE LET before == TakenEmails(batch, e0, k - 1)
         IN  IF batch[k].phone # << >> /\ ~PhoneMatches(batch[k].phone)
             THEN before
             ELSE before \cup {batch[k].email}

\* the positions of a batch the claim says are skipped
SkippedPositions(batch, e0) ==
    {k \in 1..Len(batch) :
        \/ batch[k].email \in TakenEmails(batch, e0, k - 1)
        \/ batch[k].phone # << >> /\ ~PhoneMatches(batch[k].phone)}

\* C7: BulkCreateCustomers run alone on a store that does not fail skips item
\* i with an error "Customer i: ..." exactly when its email is stored or was
\* created by an earlier item, or its phone is present and invalid; the other
\* items are persisted and success_count counts the new customers.
C7_BulkSkipsExactlyInvalidItems ==
    [][\A p \in Procs :
        (pc[p] = "bulk_exit" /\ pc'[p] = "idle") =>
            LET batch == arg[p]
                skipped == SkippedPositions(batch, {c.email : c \in customers})
                new == customers' \ customers
                r == result'[p]
            IN  /\ outcome'[p] = "returned"
                /\ Len(r.errors) = Cardinality(skipped)
                /\ {r.errors[j].pos : j \in 1..Len(r.errors)} = skipped
                /\ \A n \in new :
                       \E k \in (1..Len(batch)) \ skipped :
                           /\ n.email = batch[k].email
                           /\ n.name = batch[k].name
                           /\ n.phone = batch[k].phone
                /\ \A k \in (1..Len(batch)) \ skipped :
                       \E n \in new : n.email = batch[k].email
                /\ Cardinality(new) = Len(batch) - Cardinality(skipped)
                /\ r.success_count = Cardinality(new)
                /\ \A j \in 1..Len(r.customers) : r.customers[j] \in new]_vars

\* three inputs, the second a duplicate: two created, one error for position 2
C7_Witness ==
    \E p \in Procs :
        /\ Returned(p, "BulkCreateCustomers")
        /\ Len(arg[p]) = 3
        /\ result[p].success_count = 2
        /\ Len(result[p].errors) = 1
        /\ result[p].errors[1].pos = 2
        /\ result[p].errors[1].text = "Email already exists"
        /\ \A k \in 1..2 : result[p].customers[k] \in customers

\* C8: after BulkCreateCustomers returns, every customer of its `customers`
\* list is in the store and success_count is the number it persisted.
C8_ReturnedCustomersPersisted ==
    \A p \in Procs :
        Returned(p, "BulkCreateCustomers") =>
            /\ \A k \in 1..Len(result[p].customers) : result[p].customers[k] \in customers
            /\ result[p].success_count =
                   Cardinality({c \in customers :
                       \E k \in 1..Len(result[p].customers) : result[p].customers[k] = c})

\* C9: CreateOrder for a stored customer with an id that does not resolve
\* returns success=false naming the first such id and writes nothing.
C9_MissingProductRejected ==
    [][\A p \in Procs :
        LET ids == arg'[p].product_ids
            known == {r.id : r \in products}
        IN  (/\ Starts(p, "CreateOrder")
             /\ \E c \in customers : c.id = arg'[p].customer_id
             /\ \E k \in 1..Len(ids) : ids[k] \notin known) =>
                /\ pc'[p] = "idle"
                /\ outcome'[p] = "returned"
                /\ result'[p].success = FALSE
                /\ result'[p].order = {}
                /\ result'[p].message.text = "Product with ID does not exist"
                /\ \E k \in 1..Len(ids) :
                       /\ ids[k] \notin known
                       /\ \A j \in 1..(k - 1) : ids[j] \in known
                       /\ result'[p].message.id = ids[k]
                /\ UNCHANGED <<store, seq, txn>>]_vars

\* a CreateOrder was refused for its second id, the first one being stored
C9_Witness ==
    \E p \in Procs :
        /\ Returned(p, "CreateOrder")
        /\ result[p].message.text = "Product with ID does not exist"
        /\ Len(arg[p].product_ids) = 2
        /\ \E r \in products : r.id = arg[p].product_ids[1]
        /\ result[p].message.id = arg[p].product_ids[2]
        /\ orders = {}

\* C10: CreateOrder for a stored customer with no product id returns
\* success=false with "At least one product must be selected" and no order.
C10_EmptySelectionRejected ==
    [][\A p \in Procs :
        (/\ Starts(p, "CreateOrder")
         /\ \E c \in customers : c.id = arg'[p].customer_id
         /\ arg'[p].product_ids = << >>) =>
            /\ pc'[p] = "idle"
            /\ outcome'[p] = "returned"
            /\ result'[p] = [order |-> {}, success |-> FALSE,
                             message |-> [text |-> "At least one product must be selected",
                                          id |-> 0, exc |-> ""]]
            /\ UNCHANGED <<store, seq, txn>>]_vars

\* a CreateOrder with no product id was refused for a stored customer
C10_Witness ==
    \E p \in Procs :
        /\ Returned(p, "CreateOrder")
        /\ arg[p].product_ids = << >>
        /\ \E c \in customers : c.id = arg[p].customer_id
        /\ result[p].message.text = "At least one product must be selected"
        /\ orders = {}

\* C11: every committed order references exactly one stored customer and a
\* non-empty set of stored products.
C11_OrderReferencesStoredRows ==
    \A o \in orders :
        /\ Cardinality({c \in customers : c.id = o.customer}) = 1
        /\ o.products # {}
        /\ \A i \in o.products : \E r \in products : r.id = i

\* an order of one product is committed for the stored customer
C11_Witness ==
    \E o \in orders :
        /\ Cardinality(o.products) = 1
        /\ \E c \in customers : c.id = o.customer
        /\ \A p \in Procs : pc[p] = "idle"

\* C12: every stored product has a price above zero and a stock of at least
\* zero.
C12_StoredProductsValid == \A r \in products : r.price > 0 /\ r.stock >= 0

\* caller p is answered a query `name` in this step
Answers(p, name) == Starts(p, name) /\ outcome'[p] = "returned"

\* the rows of a result, as a set
RowSet(r) == {r.rows[k] : k \in 1..Len(r.rows)}

\* every predicate of a filter input but those named is left out
OnlySupplied(f, names) == \A k \in (DOMAIN f) \ names : f[k] = Null

\* an order_by argument that asks for no ordering or names a field
Orderable(fields, order_by) ==
    \/ order_by = Null
    \/ The(order_by) \in {<< >>, <<"?">>}
    \/ \E name \in fields : The(order_by) \in {<<name>>, <<"-", name>>}

\* C13: the product filter with low_stock=true and no other predicate
\* returns exactly the stored products whose stock is below 10, each once.
C13_LowStockBelowTen ==
    [][\A p \in Procs :
        (/\ Starts(p, "filterProducts")
         /\ arg'[p].filter.low_stock = Some(TRUE)
         /\ OnlySupplied(arg'[p].filter, {"low_stock"})
         /\ Orderable(ProductFields, arg'[p].order_by)) =>
            /\ outcome'[p] = "returned"
            /\ RowSet(result'[p]) = {r \in products : r.stock < 10}
            /\ Len(result'[p].rows) = Cardinality(RowSet(result'[p]))]_vars

\* low_stock=true answered with the product of stock 9 and without the one
\* of stock 10
C13_Witness ==
    \E p \in Procs :
        /\ Returned(p, "filterProducts")
        /\ arg[p].filter.low_stock = Some(TRUE)
        /\ OnlySupplied(arg[p].filter, {"low_stock"})
        /\ \E r \in products : r.stock = 9 /\ r \in RowSet(result[p])
        /\ \E r \in products : r.stock = 10 /\ r \notin RowSet(result[p])

\* C14: the order filter with high_value=true and no other predicate returns
\* exactly the stored orders whose total_amount is above 500, each once.
C14_HighValueAboveFiveHundred ==
    [][\A p \in Procs :
        (/\ Starts(p, "filterOrders") \/ Starts(p, "allOrders")
         /\ arg'[p].filter.high_value = Some(TRUE)
         /\ OnlySupplied(arg'[p].filter, {"high_value"})
         /\ Orderable(OrderFields, arg'[p].order_by)) =>
            /\ outcome'[p] = "returned"
            /\ RowSet(result'[p]) = {o \in orders : o.total_amount > 500000}
            /\ Len(result'[p].rows) = Cardinality(RowSet(result'[p]))]_vars

\* high_value=true answered without the stored order of exactly 500.00
C14_Witness ==
    \E p \in Procs :
        /\ Returned(p, "filterOrders")
        /\ arg[p].filter.high_value = Some(TRUE)
        /\ OnlySupplied(arg[p].filter, {"high_value"})
        /\ \E o \in orders : o.total_amount = 500000
        /\ result[p].rows = << >>

\* C15: the order filter with product_count=n and no other predicate returns
\* only orders that have exactly n associated products.
C15_ProductCountExact ==
    [][\A p \in Procs :
        (/\ Starts(p, "allOrders")
         /\ arg'[p].filter.product_count # Null
         /\ OnlySupplied(arg'[p].filter, {"product_count"})) =>
            /\ outcome'[p] = "returned"
            /\ \A o \in RowSet(result'[p]) :
                   Cardinality(o.products) = The(arg'[p].filter.product_count)]_vars

\* what the predicates of a customer filter mean
CustomerSatisfies(c, f) ==
    /\ CleanText(f.name) # Null => IContains(Spell(c.name), The(CleanText(f.name)))
    /\ CleanText(f.email) # Null => IContains(Spell(c.email), The(CleanText(f.email)))
    /\ CleanText(f.phone_pattern) # Null =>
            c.phone # NoPhone /\ IContains(c.phone, The(CleanText(f.phone_pattern)))

\* what the predicates of a product filter mean
ProductSatisfies(r, f) ==
    /\ CleanText(f.name) # Null => IContains(Spell(r.name), The(CleanText(f.name)))
    /\ f.price_gte # Null => r.price >= The(f.price_gte)
    /\ f.price_lte # Null => r.price <= The(f.price_lte)
    /\ f.stock # Null => r.stock = The(f.stock)
    /\ f.stock_gte # Null => r.stock >= The(f.stock_gte)
    /\ f.stock_lte # Null => r.stock <= The(f.stock_lte)
    /\ f.low_stock = Some(TRUE) => r.stock < 10

\* what the predicates of an order filter mean
OrderSatisfies(o, f) ==
    /\ f.total_amount_gte # Null => o.total_amount >= The(f.total_amount_gte)
    /\ f.total_amount_lte # Null => o.total_amount <= The(f.total_amount_lte)
    /\ CleanText(f.customer_name) # Null =>
            \E c \in customers : /\ c.id = o.customer
                                 /\ IContains(Spell(c.name), The(CleanText(f.customer_name)))
    /\ CleanText(f.customer_email) # Null =>
            \E c \in customers : /\ c.id = o.customer
                                 /\ IContains(Spell(c.email), The(CleanText(f.customer_email)))
    /\ CleanText(f.product_name) # Null =>
            \E r \in products : /\ r.id \in o.products
                                /\ IContains(Spell(r.name), The(CleanText(f.product_name)))
    /\ f.product_id # Null => The(f.product_id) \in o.products
    /\ f.product_count # Null => Cardinality(o.products) = The(f.product_count)
    /\ f.high_value = Some(TRUE) => o.total_amount > 500000

\* C16: a filter query answers with exactly the stored entities that satisfy
\* every supplied predicate, and with every stored entity when none is
\* supplied.
C16_PredicatesCombineByAnd ==
    [][\A p \in Procs :
        /\ (Answers(p, "filterCustomers")) =>
                RowSet(result'[p]) =
                    {c \in customers : CustomerSatisfies(c, arg'[p].filter)}
        /\ (Answers(p, "filterProducts")) =>
                RowSet(result'[p]) =
                    {r \in products : ProductSatisfies(r, arg'[p].filter)}
        /\ (Answers(p, "filterOrders") \/ Answers(p, "allOrders")) =>
                RowSet(result'[p]) =
                    {o \in orders : OrderSatisfies(o, arg'[p].filter)}]_vars

\* C17: a customer CreateCustomer reports as created is stored, no later
\* step removes or changes a stored customer, and a customer filter whose
\* only predicate is the exact email of a stored customer answers with that
\* customer.
C17_CreatedCustomerFoundByEmail ==
    [][\A p \in Procs :
        /\ (/\ op'[p] = "CreateCustomer"
            /\ pc[p] # "idle" \/ Starts(p, "CreateCustomer")
            /\ outcome'[p] = "returned"
            /\ result'[p].success) =>
                /\ result'[p].customer # Null
                /\ result'[p].customer \subseteq customers'
        /\ customers \subseteq customers'
        /\ \A c \in customers :
            (/\ Starts(p, "filterCustomers")
             /\ arg'[p].filter.email = Some(Spell(c.email))
             /\ OnlySupplied(arg'[p].filter, {"email"})
             /\ Orderable(CustomerFields, arg'[p].order_by)) =>
                /\ outcome'[p] = "returned"
                /\ c \in RowSet(result'[p])]_vars

\* a filter by the email of a customer created after the seed answers with
\* that customer alone
C17_Witness ==
    \E p \in Procs :
        /\ Returned(p, "filterCustomers")
        /\ OnlySupplied(arg[p].filter, {"email"})
        /\ Cardinality(customers) = 2
        /\ \E c \in customers :
            /\ c # SeedCustomer
            /\ arg[p].filter.email = Some(Spell(c.email))
            /\ result[p].rows = <<c>>

\* the field an order_by argument names, "" if none
OrderByName(order_by) ==
    IF order_by = Null \/ The(order_by) \in {<< >>, <<"?">>} THEN ""
    ELSE The(order_by)[Len(The(order_by))]

OrderByDescending(order_by) == Len(The(order_by)) = 2 /\ The(order_by)[1] = "-"

\* the fields of the entity a query field lists
FieldsOf(name) ==
    CASE name = "filterCustomers" -> CustomerFields
      [] name = "filterProducts" -> ProductFields
      [] name = "filterOrders" -> OrderFields

\* the value of a numeric field of a row
FieldValue(row, field) ==
    CASE field \in {"id", "pk"} -> row.id
      [] field = "price" -> row.price
      [] field = "stock" -> row.stock
      [] field = "total_amount" -> row.total_amount

\* the rows the filter of a query selects
Selected(name, f) ==
    CASE name = "filterCustomers" -> {c \in customers : CustomerSatisfies(c, f)}
      [] name = "filterProducts" -> {r \in products : ProductSatisfies(r, f)}
      [] name = "filterOrders" -> {o \in orders : OrderSatisfies(o, f)}

\* C18: a filter query whose order_by names no field of the entity ends in
\* an error and returns nothing; one whose order_by names a field, with or
\* without "-", returns the filtered rows in ascending or descending order
\* of that field.
C18_OrderByFieldOrError ==
    [][\A p \in Procs : \A name \in {"filterCustomers", "filterProducts", "filterOrders"} :
        (Starts(p, name) /\ OrderByName(arg'[p].order_by) # "") =>
            LET field == OrderByName(arg'[p].order_by)
                rows == result'[p].rows
            IN  IF field \notin FieldsOf(name)
                THEN outcome'[p] = "raised" /\ result'[p] = NoResult
                ELSE /\ outcome'[p] = "returned"
                     /\ RowSet(result'[p]) = Selected(name, arg'[p].filter)
                     /\ \A k \in 1..(Len(rows) - 1) :
                            IF OrderByDescending(arg'[p].order_by)
                            THEN FieldValue(rows[k], field) >= FieldValue(rows[k + 1], field)
                            ELSE FieldValue(rows[k], field) <= FieldValue(rows[k + 1], field)]_vars

\* products listed by ascending stock, against the order of their ids
C18_Witness ==
    \E p \in Procs :
        /\ Returned(p, "filterProducts")
        /\ arg[p].order_by = Some(<<"stock">>)
        /\ Len(result[p].rows) = 2
        /\ result[p].rows[1].stock < result[p].rows[2].stock
        /\ result[p].rows[1].id > result[p].rows[2].id

\* a query whose order_by names no field has raised
C18_ErrorReached ==
    \E p \in Procs :
        /\ op[p] = "filterCustomers"
        /\ arg[p].order_by = Some(<<"-", "bogus">>)
        /\ outcome[p] = "raised"

C21_TotalRecomputedOnce ==
    \A p \in Procs :
        /\ pc[p] = "co_set" => loc[p].totals = << >>
        /\ pc[p] = "co_commit" =>
            loc[p].totals = << {loc[p].products[k].id : k \in 1..Len(loc[p].products)} >>


\* the ids of an id list, each once
IdSet(ids) == {ids[k] : k \in 1..Len(ids)}

\* C22: the order a successful CreateOrder returns is associated with each
\* distinct id of product_ids once and its total counts each of these
\* products' prices once, so that it has the same products and the same
\* total as the order of another call whose list holds the same ids in
\* another order or with repetitions.
C22_ProductIdsAreASet ==
    [][\A p \in Procs :
        (pc[p] = "co_commit" /\ pc'[p] = "idle" /\ result'[p].success) =>
            \A o \in result'[p].order :
                /\ o.products = IdSet(arg[p].product_ids)
                /\ o.total_amount = PriceSum(IdSet(arg[p].product_ids))
                /\ \A q \in Procs \ {p} :
                    ( /\ Returned(q, "CreateOrder")
                      /\ result[q].success
                      /\ IdSet(arg[q].product_ids) = IdSet(arg[p].product_ids) ) =>
                        \A o2 \in result[q].order :
                            /\ o2.products = o.products
                            /\ o2.total_amount = o.total_amount]_vars

\* one call with [1] and one with [1, 1] have created two orders of the
\* same product and total
C22_Witness ==
    \E p, q \in Procs :
        /\ Returned(p, "CreateOrder") /\ result[p].success
        /\ Returned(q, "CreateOrder") /\ result[q].success
        /\ arg[p].product_ids = <<1>>
        /\ arg[q].product_ids = <<1, 1>>
        /\ \A o \in result[p].order, o2 \in result[q].order :
            /\ o.id # o2.id
            /\ o.products = {1} /\ o2.products = {1}
            /\ o.total_amount = 999990 /\ o2.total_amount = 999990


\* C23: CreateOrder reports the first check that fails, the checks being
\* the customer, then the emptiness of product_ids, then the product ids in
\* list order: a call for a missing customer returns the customer message
\* whatever its product list is, and a call that fails a check has written
\* nothing and opened no transaction; only a call that passed all three
\* enters the atomic block.
C23_ChecksInFixedOrder ==
    [][\A p \in Procs :
        LET input == arg'[p]
            ids == input.product_ids
            known == {r.id : r \in products}
            customer_missing == \A c \in customers : c.id # input.customer_id
            unknown == {k \in 1..Len(ids) : ids[k] \notin known}
            refused(text, id) ==
                /\ pc'[p] = "idle"
                /\ outcome'[p] = "returned"
                /\ result'[p] = [order |-> {}, success |-> FALSE,
                                 message |-> [text |-> text, id |-> id, exc |-> ""]]
                /\ UNCHANGED <<store, seq, txn>>
        IN  Starts(p, "CreateOrder") =>
                /\ customer_missing =>
                        refused("Customer with ID does not exist", input.customer_id)
                /\ (~customer_missing /\ ids = << >>) =>
                        refused("At least one product must be selected", 0)
                /\ (~customer_missing /\ unknown # {}) =>
                        \E k \in unknown :
                            /\ \A j \in unknown : k <= j
                            /\ refused("Product with ID does not exist", ids[k])
                /\ pc'[p] # "idle" =>
                        /\ ~customer_missing /\ ids # << >> /\ unknown = {}
                        /\ pc'[p] = "co_create"
                        /\ UNCHANGED <<store, seq>>
                        /\ txn'[p].orders = {}]_vars

\* a call for a missing customer whose two product ids are unknown too was
\* refused for the customer
C23_Witness ==
    \E p \in Procs :
        /\ Returned(p, "CreateOrder")
        /\ customers = {} /\ products = {} /\ orders = {}
        /\ arg[p].product_ids = <<2, 1>>
        /\ result[p].message = [text |-> "Customer with ID does not exist",
                                id |-> arg[p].customer_id, exc |-> ""]

\* a call for a missing customer with no product id was refused for the
\* customer as well
C23_EmptyListReached ==
    \E p \in Procs :
        /\ Returned(p, "CreateOrder")
        /\ customers = {}
        /\ arg[p].product_ids = << >>
        /\ result[p].message.text = "Customer with ID does not exist"


\* C24: one submission of generate_crm_report_with_retry is executed at
\* most MaxRetries + 1 = 4 times: a failed execution with fewer than 3
\* retries done puts the task back on the queue with one more retry, a
\* failed execution at 3 retries returns success=false, a successful one
\* returns success=true, none raises, and every submitted task ends.
C24_RetryEndsWithinFourRuns ==
    /\ [][LET j == job["generate_crm_report_with_retry"]
              k == job'["generate_crm_report_with_retry"]
          IN  /\ k.loc.attempts <= 4
              /\ k.loc.attempts <= k.loc.retries + 1
              /\ k.outcome # "raised"
              /\ (j.pc = "rt_error" /\ k # j) =>
                    IF j.loc.retries < 3
                    THEN /\ k.pc = "rt_queued"
                         /\ k.loc.retries = j.loc.retries + 1
                         /\ k.outcome = "none"
                    ELSE /\ k.pc = "idle"
                         /\ k.outcome = "returned"
                         /\ k.result = [success |-> FALSE, data |-> Null]
              /\ (j.pc = "rt_write" /\ k # j /\ k.pc # "rt_error") =>
                    /\ k.pc = "idle"
                    /\ k.outcome = "returned"
                    /\ k.result.success
              /\ (j.pc # "idle" /\ k.pc = "idle") =>
                    j.pc \in {"rt_write", "rt_error"}]_vars
    /\ (job["generate_crm_report_with_retry"].pc # "idle")
            ~> (job["generate_crm_report_with_retry"].pc = "idle")

\* the fourth execution failed as the three before it, and the task
\* returned success=false
C24_Witness ==
    LET j == job["generate_crm_report_with_retry"]
    IN  /\ j.pc = "idle"
        /\ j.outcome = "returned"
        /\ j.result = [success |-> FALSE, data |-> Null]
        /\ j.loc.attempts = 4
        /\ j.loc.retries = 3
        /\ Len(logs.report) = 4

\* the third execution succeeded after two that failed
C24_SuccessAfterRetries ==
    LET j == job["generate_crm_report_with_retry"]
    IN  /\ j.pc = "idle"
        /\ j.outcome = "returned"
        /\ j.result.success
        /\ j.loc.attempts = 3


\* C25: a call of log_crm_heartbeat never raises; whatever the check of the
\* endpoint ends in, the call gets to the write of a "CRM is alive" line,
\* and when that write succeeds the heartbeat log is the old log followed
\* by exactly that one line; no step of the call removes or changes a line.
C25_HeartbeatAppendsOneLine ==
    [][LET j == job["log_crm_heartbeat"]
           k == job'["log_crm_heartbeat"]
           old == logs.heartbeat
           new == logs'.heartbeat
       IN  /\ k.outcome # "raised"
           /\ Len(new) >= Len(old) /\ SubSeq(new, 1, Len(old)) = old
           /\ (j.pc = "idle" /\ k # j) =>
                /\ k.loc.http \in HttpOutcomes
                /\ k.pc = "hb_write"
                /\ new = old
           /\ (j.pc = "hb_write" /\ k # j) =>
                \/ /\ k.pc = "idle" /\ k.outcome = "returned"
                   /\ Len(new) = Len(old) + 1
                   /\ new[Len(new)].text = "CRM is alive"
                \/ /\ k.pc = "hb_error" /\ k.loc.failed = "log"
                   /\ new = old
           /\ (j.pc = "hb_error" /\ k # j) =>
                /\ j.loc.failed = "log"
                /\ k.pc = "idle" /\ k.outcome = "returned"
                /\ Len(new) <= Len(old) + 1]_vars

\* three calls, the endpoint answering, refusing the connection and
\* answering 500, have left three lines
C25_Witness ==
    /\ job["log_crm_heartbeat"].pc = "idle"
    /\ job["log_crm_heartbeat"].outcome = "returned"
    /\ logs.heartbeat = << [text |-> "CRM is alive", note |-> "GraphQL endpoint responsive"],
                           [text |-> "CRM is alive", note |-> "GraphQL check failed"],
                           [text |-> "CRM is alive", note |-> "GraphQL endpoint not responding"] >>


\* C26: a run of cleanup_old_reports that read n lines returns
\* lines_before = n and lines_after = min(n, 500); if nothing was written to
\* the log since it was read, the run leaves the last min(n, 500) lines of
\* what it read, in their order, so that a second run finds at most 500
\* lines; a run that read at most 500 lines does not write the log.
C26_CleanupKeepsLastFiveHundred ==
    [][LET j == job["cleanup_old_reports"]
           k == job'["cleanup_old_reports"]
           read == j.loc.lines
           n == Len(read)
           m == IF n < 500 THEN n ELSE 500
       IN  (j.pc = "cl_rewrite" /\ k.pc = "idle" /\ k.result.success) =>
                /\ k.outcome = "returned"
                /\ k.result.lines_before = {n}
                /\ k.result.lines_after = {m}
                /\ n <= 500 => logs' = logs
                /\ logs.report = read =>
                    /\ Len(logs'.report) = m
                    /\ \A i \in 1..m : logs'.report[i] = read[n - m + i]]_vars

\* a run on a log of 502 lines has left lines 3 to 502, and the run after
\* it has read these 500 lines and left them as they were
C26_Witness ==
    LET j == job["cleanup_old_reports"]
    IN  /\ j.pc = "idle" /\ j.outcome = "returned"
        /\ j.result.success
        /\ j.result.lines_before = {500} /\ j.result.lines_after = {500}
        /\ job["generate_crm_report"] = JobIdle
        /\ env.runs = MaxCleanupRuns - 2
        /\ Len(logs.report) = 500
        /\ \A i \in 1..500 :
            logs.report[i] = [entry |-> "old",
                              data |-> {[total_customers |-> i + 2, total_orders |-> 0,
                                         total_revenue |-> [nearest |-> 0]]}]


\* C30: when generate_crm_report and cleanup_old_reports have both
\* returned success, the report line and the six lines of the detailed
\* report that the report task appended are in the report log, however the
\* read and the rewrite of the cleanup fell between the two appends.
C30_NoReportLineLost ==
    LET r == job["generate_crm_report"]
        c == job["cleanup_old_reports"]
        written == {logs.report[i].entry : i \in 1..Len(logs.report)}
    IN  ( /\ r.pc = "idle" /\ r.outcome = "returned" /\ r.result.success
          /\ c.pc = "idle" /\ c.outcome = "returned" /\ c.result.success ) =>
            {"report", "detail", "total_customers", "total_orders", "total_revenue",
             "generated", "rule"} \subseteq written


\* C27: the result of BulkCreateCustomers accounts for every input once:
\* success_count is the length of customers, success_count plus the number
\* of errors is the number of inputs, the errors name distinct positions in
\* ascending order, and customers holds the inputs of the other positions
\* in input order.
C27_EveryInputHasOneOutcome ==
    [][\A p \in Procs :
        (pc[p] = "bulk_exit" /\ pc'[p] = "idle" /\ outcome'[p] = "returned") =>
            LET batch == arg[p]
                r == result'[p]
                failed == {r.errors[j].pos : j \in 1..Len(r.errors)}
                earlier(k) == Cardinality({i \in failed : i < k})
            IN  /\ r.success_count = Len(r.customers)
                /\ r.success_count + Len(r.errors) = Len(batch)
                /\ failed \subseteq 1..Len(batch)
                /\ \A i, j \in 1..Len(r.errors) : i < j => r.errors[i].pos < r.errors[j].pos
                /\ \A k \in (1..Len(batch)) \ failed :
                    /\ k - earlier(k) \in 1..Len(r.customers)
                    /\ r.customers[k - earlier(k)].email = batch[k].email
                    /\ r.customers[k - earlier(k)].name = batch[k].name]_vars

\* of two inputs the first was refused and the second created
C27_Witness ==
    \E p \in Procs :
        /\ Returned(p, "BulkCreateCustomers")
        /\ Len(arg[p]) = 2
        /\ result[p].success_count = 1
        /\ Len(result[p].errors) = 1
        /\ result[p].errors[1].pos = 1
        /\ result[p].customers[1].email = arg[p][2].email


\* C28: the rows an order query returns are distinct: no stored order
\* stands at two places of the result, whatever product_name or product_id
\* matched.
C28_EachOrderAtMostOnce ==
    \A p \in Procs :
        (Returned(p, "filterOrders") \/ Returned(p, "allOrders")) =>
            \A i, j \in 1..Len(result[p].rows) :
                i # j => result[p].rows[i].id # result[p].rows[j].id


\* C29: CreateCustomer and a one-item BulkCreateCustomers of one schema
\* module let a new customer's phone pass exactly when it is absent or
\* empty or matches the pattern of the Customer model's validator, and an
\* absent or empty phone is stored as it is; so both accept the same
\* phones and neither accepts a valid phone followed by other characters.
C29_PhoneChecksAgree ==
    [][\A p \in Procs :
        LET accepted(phone) == phone = NoPhone \/ PhoneMatches(phone)
            stored == {c.email : c \in customers}
        IN  /\ (Starts(p, "CreateCustomer") /\ arg'[p].email \notin stored) =>
                    ((pc'[p] = "cc_create") <=> accepted(arg'[p].phone))
            /\ (/\ pc[p] = "bulk_item" /\ pc'[p] # pc[p]
                /\ Len(arg[p]) = 1 /\ arg[p][1].email \notin stored) =>
                    ((pc'[p] = "bulk_create") <=> accepted(arg[p][1].phone))
            /\ \A c \in customers' \ customers : accepted(c.phone)]_vars

=============================================================================
